---------------------------- MODULE Spec2Model ----------------------------
(***************************************************************************)
(* A model of the widepay migrator (src/mohassil):                         *)
(*   - the migration driver, run_script action 1 (MigrationManager.py),    *)
(*     with the part of CustomLogic.process_columns that decides whether   *)
(*     a transactions row is skipped;                                      *)
(*   - the transaction settlement engine, settle_transactions;             *)
(*   - the early-settlement engine, settle_installments and                *)
(*     handle_early_settlement (custom_helper.py);                         *)
(*   - the branches of process_columns for one row of the transactions,    *)
(*     loans and installments migrations (CustomLogic.py);                 *)
(*   - the loans and the clients migration against the target tables.      *)
(* The target database is a working copy (what the open transaction sees)  *)
(* and a committed copy: commit() copies the working copy to the committed *)
(* one, rollback() copies it back.  An exception of the database driver is *)
(* a nondeterministic input of the action in which the statement runs.     *)
(***************************************************************************)
EXTENDS Integers, Sequences, FiniteSets, TLC

VARIABLES
    \* ---- migration driver (run_script, action "1") ----
    pc,                    \* "menu" | "selected" | "loop"
    migration_name,        \* manager.migrations[int(choice) - 1]
    fk_option,             \* "1" enabled (default) | "2" disabled
    fk_checks,             \* the session's FOREIGN_KEY_CHECKS, 0 or 1
    data_to_migrate,       \* src_cursor.fetchall()
    i,                     \* index of the next row of the loop (0-based)
    successful_inserts,
    failed_inserts,
    skipped_transactions,  \* CustomLogic.skipped_transactions (lives across runs)
    commits,               \* calls of dest_conn.commit() in this run
    rollbacks,             \* calls of dest_conn.rollback() in this run
    outcome,               \* "none" | "running" | how the last run came back to the
                           \* menu: "start_error" | "row_error" | "committed" |
                           \* "rolledback" | "end_error"
    log,                   \* history: what the driver did for each row so far
    runs,                  \* runs started from the main menu so far
    \* ---- the target database and the two settlement engines ----
    db,                    \* the tables as the connection's open transaction sees them
    dbc,                   \* the tables as committed
    loan_ids,              \* the loans a settlement run loops over
    next_tx_id,            \* the AUTO_INCREMENT counter of loan_transactions
    done,                  \* history: settle_installments, what happened to each loan
    db0,                   \* history: the committed tables when the current run started
    prev_outcome           \* history: the outcome of the run before the current one

mvars == <<pc, migration_name, fk_option, fk_checks, data_to_migrate, i,
           successful_inserts, failed_inserts, skipped_transactions,
           commits, rollbacks, outcome, log, runs>>

dvars == <<db, dbc, loan_ids, next_tx_id, done, db0, prev_outcome>>

vars == <<mvars, dvars>>

-----------------------------------------------------------------------------
(* Bounds of the model *)

MaxRows == 2
MaxRuns == 1

\* settle_transactions: at most MaxTx transactions in a small database, in
\* which a settlement may be run MaxSettleRuns times; a wide database has
\* ExtraLoans loans more than one commit batch.
MaxTx == 2
MaxSettleRuns == 2
ExtraLoans == 1

\* settle_installments: schedules of at most MaxInst installments, settled in
\* at most MaxEarlyRuns runs.
MaxInst == 2
MaxEarlyRuns == 2

\* process_columns: the amounts of a source row are at most MaxAmount, of
\* either sign.
MaxAmount == 2

-----------------------------------------------------------------------------
(* CustomLogic.process_columns, transactions: the type remap table *)

trans_type_mapping ==
    (1 :> 2) @@ (3 :> 1) @@ (7 :> 6) @@ (17 :> 10) @@
    (2 :> 2) @@ (4 :> 1) @@ (8 :> 6) @@ (18 :> 10)

cancellation_types == {2, 4, 8, 18}

\* Source type codes the model draws from: a repayment, its cancellation,
\* apply-charges, and two codes without a mapping.
TransActs == {1, 2, 17, 5, 99}

Migrations == {"loans", "transactions", "officers"}

\* A source row, reduced to what the driver's control flow reads:
\*   trans_act  the source type code (transactions)
\*   charge     the row stages a _charge_to_add (loans with application charge > 0)
\*   latlon     the processed row has latitude and longitude (loans)
SourceRows(mig) ==
    IF mig = "transactions"
    THEN [trans_act : TransActs, charge : {FALSE}, latlon : {FALSE}]
    ELSE IF mig = "loans"
    THEN [trans_act : {0}, charge : BOOLEAN, latlon : BOOLEAN]
    ELSE [trans_act : {0}, charge : {FALSE}, latlon : {FALSE}]

RECURSIVE SeqsUpTo(_, _)
SeqsUpTo(S, n) ==
    IF n = 0 THEN {<< >>}
    ELSE LET shorter == SeqsUpTo(S, n - 1)
         IN  shorter \cup {Append(s, x) : s \in {t \in shorter : Len(t) = n - 1}, x \in S}

\* What the database driver does to the statements of one loop iteration:
\* each field says whether that statement raises.
Faults == [transform : BOOLEAN, insert : BOOLEAN, charge : BOOLEAN, location : BOOLEAN]

\* process_columns for one row.  It works on row_data in place; the driver
\* drops its return value.  raised: an exception left process_columns before
\* the skip decision; skip: row_data["_skip_this_row"] was set; dskip: the
\* increase of self.skipped_transactions.
process_columns(mig, row, f) ==
    IF f.transform
    THEN [raised |-> TRUE, skip |-> FALSE, dskip |-> 0]
    ELSE IF mig = "transactions" /\ row.trans_act \notin DOMAIN trans_type_mapping
    THEN [raised |-> FALSE, skip |-> TRUE, dskip |-> 1]
    ELSE [raised |-> FALSE, skip |-> FALSE, dskip |-> 0]

\* "if processed_row is None: continue": processed_row is the dict the driver
\* built itself and process_columns changed in place, so it is never None.
processed_row_is_None(pr) == FALSE

\* The except clause around the linked-charge insert: the row is counted as
\* failed instead of successful, and the row goes on.
charge_except(c) == [c EXCEPT !.failed = @ + 1, !.successful = @ - 1]

\* The loop's own "except Exception as e: failed_inserts += 1 ... continue".
\* propagate: whether the exception leaves the loop.
row_except_reraise(e, c) ==
    [entry |-> [e EXCEPT !.caught = TRUE],
     counters |-> [c EXCEPT !.failed = @ + 1],
     propagate |-> TRUE]

row_except(e, c) ==
    [entry |-> [e EXCEPT !.caught = TRUE],
     counters |-> [c EXCEPT !.failed = @ + 1],
     propagate |-> FALSE]

\* The body of "for i, row in enumerate(data_to_migrate)" for one row: the
\* entry of the log and the new counters.
\*   row       the source row
\*   returned  process_columns returned (it did not raise)
\*   skip      process_columns set the skip flag on the row
\*   dskip     the increase of skipped_transactions
\*   main      "none" no main insert was executed | "ok" | "err" it raised
\*   charge    the linked-charge insert, likewise
\*   location  the location insert, likewise
\*   caught    the row ended in the loop's "except Exception" clause
LoopBody(mig, row, f, c) ==
    LET pr == process_columns(mig, row, f)
        base == [row |-> row, returned |-> ~pr.raised, skip |-> pr.skip,
                 dskip |-> pr.dskip, main |-> "none", charge |-> "none",
                 location |-> "none", caught |-> FALSE]
        normal(e, cc) == [entry |-> e, counters |-> cc, propagate |-> FALSE]
    IN  IF pr.raised THEN row_except(base, c)
        ELSE IF processed_row_is_None(pr) THEN normal(base, c)
        ELSE IF f.insert THEN row_except([base EXCEPT !.main = "err"], c)
        ELSE
          LET e1 == [base EXCEPT !.main = "ok"]
              c1 == [c EXCEPT !.successful = @ + 1]
          IN  IF mig = "loans"
              THEN LET withCharge == row.charge
                       e2 == IF withCharge
                             THEN [e1 EXCEPT !.charge = IF f.charge THEN "err" ELSE "ok"]
                             ELSE e1
                       c2 == IF withCharge /\ f.charge THEN charge_except(c1) ELSE c1
                   IN  IF row.latlon
                       THEN IF f.location
                            THEN row_except([e2 EXCEPT !.location = "err"], c2)
                            ELSE normal([e2 EXCEPT !.location = "ok"], c2)
                       ELSE normal(e2, c2)
              ELSE normal(e1, c1)

-----------------------------------------------------------------------------
(* The target database: the three tables the settlement engines work on *)

EmptyTables == [loans |-> {}, loan_repayment_schedules |-> {}, loan_transactions |-> {}]

-----------------------------------------------------------------------------
(* The migration driver *)

InitMigration ==
    /\ pc = "menu"
    /\ migration_name = "loans"
    /\ fk_option = "1"
    /\ fk_checks = 1
    /\ data_to_migrate = << >>
    /\ i = 0
    /\ successful_inserts = 0
    /\ failed_inserts = 0
    /\ skipped_transactions = 0
    /\ commits = 0
    /\ rollbacks = 0
    /\ outcome = "none"
    /\ log = << >>
    /\ runs = 0
    /\ db = EmptyTables
    /\ dbc = EmptyTables
    /\ loan_ids = << >>
    /\ next_tx_id = 1
    /\ done = << >>
    /\ db0 = EmptyTables
    /\ prev_outcome = "none"

\* The main menu: the operator picks a migration, action "1" and the
\* foreign-key option.  The counters of the previous run are locals of that
\* run; the history of the previous run ends here.
SelectMigration ==
    /\ pc = "menu"
    /\ runs < MaxRuns
    /\ \E mig \in Migrations, fk \in {"1", "2"} :
         /\ migration_name' = mig
         /\ fk_option' = fk
    /\ pc' = "selected"
    /\ data_to_migrate' = << >>
    /\ i' = 0
    /\ successful_inserts' = 0
    /\ failed_inserts' = 0
    /\ commits' = 0
    /\ rollbacks' = 0
    /\ outcome' = "running"
    /\ log' = << >>
    /\ runs' = runs + 1
    /\ UNCHANGED <<fk_checks, skipped_transactions>>
    /\ UNCHANGED dvars

\* The fetch of the source rows, SET FOREIGN_KEY_CHECKS=0 when asked for, and
\* START TRANSACTION.  When START TRANSACTION raises, the exception leaves the
\* whole branch for run_script's "except Exception" and the main menu.
StartMigration ==
    /\ pc = "selected"
    /\ \E rows \in SeqsUpTo(SourceRows(migration_name), MaxRows), startRaises \in BOOLEAN :
         /\ data_to_migrate' = rows
         /\ pc' = IF startRaises THEN "menu" ELSE "loop"
         /\ outcome' = IF startRaises THEN "start_error" ELSE "running"
    /\ fk_checks' = IF fk_option = "2" THEN 0 ELSE fk_checks
    /\ UNCHANGED <<migration_name, fk_option, i, successful_inserts, failed_inserts,
                   skipped_transactions, commits, rollbacks, log, runs>>
    /\ UNCHANGED dvars

\* One iteration of the row loop.
ProcessRow ==
    /\ pc = "loop"
    /\ i < Len(data_to_migrate)
    /\ \E f \in Faults :
         LET r == LoopBody(migration_name, data_to_migrate[i + 1], f,
                           [successful |-> successful_inserts, failed |-> failed_inserts])
         IN  /\ log' = Append(log, r.entry)
             /\ successful_inserts' = r.counters.successful
             /\ failed_inserts' = r.counters.failed
             /\ skipped_transactions' = skipped_transactions + r.entry.dskip
             /\ pc' = IF r.propagate THEN "menu" ELSE "loop"
             /\ outcome' = IF r.propagate THEN "row_error" ELSE outcome
    /\ i' = i + 1
    /\ UNCHANGED <<migration_name, fk_option, fk_checks, data_to_migrate,
                   commits, rollbacks, runs>>
    /\ UNCHANGED dvars

commit_condition_always == successful_inserts >= 0

\* "if successful_inserts > 0": the condition of the commit.
commit_condition == successful_inserts > 0

\* After the loop: commit or rollback, then SET FOREIGN_KEY_CHECKS=1 when the
\* checks were disabled.  When commit() or rollback() raises, the exception
\* leaves for run_script's "except Exception" before the SET is reached.
FinishMigration ==
    /\ pc = "loop"
    /\ i = Len(data_to_migrate)
    /\ \E endRaises \in BOOLEAN :
         /\ IF commit_condition
            THEN commits' = commits + 1 /\ rollbacks' = rollbacks
            ELSE rollbacks' = rollbacks + 1 /\ commits' = commits
         /\ outcome' = IF endRaises THEN "end_error"
                       ELSE IF commit_condition THEN "committed" ELSE "rolledback"
         /\ fk_checks' = IF ~endRaises /\ fk_option = "2" THEN 1 ELSE fk_checks
    /\ pc' = "menu"
    /\ UNCHANGED <<migration_name, fk_option, data_to_migrate, i, successful_inserts,
                   failed_inserts, skipped_transactions, log, runs>>
    /\ UNCHANGED dvars

NextMigration == SelectMigration \/ StartMigration \/ ProcessRow \/ FinishMigration

SpecMigration == InitMigration /\ [][NextMigration]_vars

-----------------------------------------------------------------------------
(* The transaction settlement engine: settle_transactions *)

\* "if (i + 1) % 100 == 0: conn.commit()"
CommitBatch == 100

\* A row of loan_transactions.  Amounts are integers (the code computes in
\* floats); a NULL amount or balance is 0, as "float(x or 0)" reads it, and
\* repayment_schedule_id 0 is NULL.
Tx(id, loan_id, type, p, n, pen, amount, schedule_id) ==
    [id |-> id, loan_id |-> loan_id, loan_transaction_type_id |-> type,
     amount |-> amount, principal_repaid_derived |-> p,
     interest_repaid_derived |-> n, penalties_repaid_derived |-> pen,
     fees_repaid_derived |-> 0,
     principal_balance |-> 0, interest_balance |-> 0, fees_balance |-> 0,
     penalties_balance |-> 0, total_balance |-> 0,
     repayment_schedule_id |-> schedule_id]

\* Transaction types of the target: 1 disbursement, 2 repayment, 6 write-off,
\* 10 apply charges, 12 penalty (one of the types the replay passes over).
TxTypes == {1, 2, 6, 10, 12}

\* The amounts of a migrated transaction: principal, interest and penalties
\* repaid and the amount; a repayment, a cancellation (negative) and zeros.
TxAmounts == {<<2, 1, 1, 4>>, <<-2, -1, 0, -3>>, <<0, 0, 0, 0>>}

TxShapes == [loan_id : {1, 2}, type : TxTypes, amounts : TxAmounts]

\* The loan_transactions table of the shapes in s: ids in insertion order.
TxTable(s) ==
    {Tx(k, s[k].loan_id, s[k].type, s[k].amounts[1], s[k].amounts[2],
        s[k].amounts[3], s[k].amounts[4], 0) : k \in 1..Len(s)}

\* Small databases: every table of at most MaxTx transactions of two loans.
SmallTables ==
    {[EmptyTables EXCEPT !.loan_transactions = TxTable(s)] :
        s \in SeqsUpTo(TxShapes, MaxTx)}

\* A wide database: one repayment for each of CommitBatch + ExtraLoans loans.
WideTables ==
    [EmptyTables EXCEPT !.loan_transactions =
        {Tx(k, k, 2, 2, 1, 1, 4, 0) : k \in 1..(CommitBatch + ExtraLoans)}]

\* ORDER BY id: the k-th row is the one with k - 1 rows of smaller id.
OrderById(S) ==
    [k \in 1..Cardinality(S) |->
        CHOOSE t \in S : Cardinality({u \in S : u.id < t.id}) = k - 1]

\* ORDER BY of a set of numbers, ascending
Ascending(S) ==
    [k \in 1..Cardinality(S) |->
        CHOOSE x \in S : Cardinality({y \in S : y < x}) = k - 1]

\* SELECT DISTINCT loan_id FROM loan_transactions WHERE loan_id IS NOT NULL
\* (the rows come in the order of the ids)
fetch_loan_ids(d) == Ascending({t.loan_id : t \in d.loan_transactions})

ZeroBalances == [principal |-> 0, interest |-> 0, penalties |-> 0]

\* The replay with a disbursement that adds to the balances.
update_balances_accumulate(b, tx) ==
    IF tx.loan_transaction_type_id = 10
    THEN [b EXCEPT !.penalties = @ + tx.amount]
    ELSE IF tx.loan_transaction_type_id = 1
    THEN [b EXCEPT !.principal = @ + tx.principal_repaid_derived,
                   !.interest = @ + tx.interest_repaid_derived]
    ELSE IF tx.loan_transaction_type_id \in {2, 6}
    THEN [b EXCEPT !.principal = @ - tx.principal_repaid_derived,
                   !.interest = @ - tx.interest_repaid_derived,
                   !.penalties = @ - tx.penalties_repaid_derived]
    ELSE b

\* "Update balances based on transaction type"
update_balances(b, tx) ==
    IF tx.loan_transaction_type_id = 10
    THEN [b EXCEPT !.penalties = @ + tx.amount]
    ELSE IF tx.loan_transaction_type_id = 1
    THEN [b EXCEPT !.principal = tx.principal_repaid_derived,
                   !.interest = tx.interest_repaid_derived]
    ELSE IF tx.loan_transaction_type_id \in {2, 6}
    THEN [b EXCEPT !.principal = @ - tx.principal_repaid_derived,
                   !.interest = @ - tx.interest_repaid_derived,
                   !.penalties = @ - tx.penalties_repaid_derived]
    ELSE b

clear_repaid_for_every_type(tx) == TRUE

\* "clear_repaid = tx_type == 1 or tx_type == 10"
clear_repaid(tx) == tx.loan_transaction_type_id = 1 \/ tx.loan_transaction_type_id = 10

\* The UPDATE with a total of principal and interest only.
update_row_total_without_penalties(tx, b) ==
    [tx EXCEPT !.principal_balance = b.principal,
               !.interest_balance = b.interest,
               !.penalties_balance = b.penalties,
               !.total_balance = b.principal + b.interest]

\* The UPDATE of one transaction row with the running balances b.
update_row(tx, b) ==
    LET balanced == [tx EXCEPT !.principal_balance = b.principal,
                               !.interest_balance = b.interest,
                               !.penalties_balance = b.penalties,
                               !.total_balance = b.principal + b.interest + b.penalties]
    IN  IF clear_repaid(tx)
        THEN [balanced EXCEPT !.principal_repaid_derived = 0,
                              !.interest_repaid_derived = 0]
        ELSE balanced

\* The loop over one loan's transactions, fetched before the first UPDATE:
\* the rows as updated, for the transactions txs[k..] and balances b so far.
RECURSIVE settle_rows(_, _, _)
settle_rows(txs, k, b) ==
    IF k > Len(txs) THEN {}
    ELSE LET nb == update_balances(b, txs[k])
         IN  {update_row(txs[k], nb)} \cup settle_rows(txs, k + 1, nb)

\* One iteration of "for i, loan_id in enumerate(loan_ids)": the tables after it.
settle_loan(d, loan_id) ==
    LET mine == {t \in d.loan_transactions : t.loan_id = loan_id}
    IN  [d EXCEPT !.loan_transactions =
            (@ \ mine) \cup settle_rows(OrderById(mine), 1, ZeroBalances)]

InitSettle ==
    /\ pc = "menu"
    /\ migration_name = "loans"
    /\ fk_option = "1"
    /\ fk_checks = 1
    /\ data_to_migrate = << >>
    /\ i = 0
    /\ successful_inserts = 0
    /\ failed_inserts = 0
    /\ skipped_transactions = 0
    /\ commits = 0
    /\ rollbacks = 0
    /\ outcome = "none"
    /\ log = << >>
    /\ runs = 0
    /\ db \in SmallTables \cup {WideTables}
    /\ dbc = db
    /\ loan_ids = << >>
    /\ next_tx_id = 1
    /\ done = << >>
    /\ db0 = db
    /\ prev_outcome = "none"

\* choice == str(transactions_option): START TRANSACTION, then
\* settle_transactions up to its loop.
StartSettleTransactions ==
    /\ pc = "menu"
    /\ runs < MaxSettleRuns
    /\ pc' = "settle_transactions"
    /\ loan_ids' = fetch_loan_ids(db)
    /\ i' = 0
    /\ runs' = runs + 1
    /\ db0' = dbc
    /\ prev_outcome' = outcome
    /\ outcome' = "running"
    /\ UNCHANGED <<db, dbc, next_tx_id, done>>
    /\ UNCHANGED <<migration_name, fk_option, fk_checks, data_to_migrate,
                   successful_inserts, failed_inserts, skipped_transactions,
                   commits, rollbacks, log>>

\* One loan of the loop, and the commit after every CommitBatch loans.
SettleLoan ==
    /\ pc = "settle_transactions"
    /\ i < Len(loan_ids)
    /\ LET d == settle_loan(db, loan_ids[i + 1])
       IN  /\ db' = d
           /\ dbc' = IF (i + 1) % CommitBatch = 0 THEN d ELSE dbc
    /\ i' = i + 1
    /\ UNCHANGED <<pc, outcome, runs, loan_ids, next_tx_id, done, db0, prev_outcome>>
    /\ UNCHANGED <<migration_name, fk_option, fk_checks, data_to_migrate,
                   successful_inserts, failed_inserts, skipped_transactions,
                   commits, rollbacks, log>>

\* A statement of the loop raises while loan i + 1 is processed: the except
\* clause of settle_transactions rolls back and raises again, run_script
\* rolls back once more and goes back to the menu.  The rows of the loan that
\* were updated before the exception are rolled back with the rest.
SettleLoanRaises ==
    /\ pc = "settle_transactions"
    /\ i < Len(loan_ids)
    /\ db' = dbc
    /\ pc' = "menu"
    /\ outcome' = "error"
    /\ UNCHANGED <<i, runs, dbc, loan_ids, next_tx_id, done, db0, prev_outcome>>
    /\ UNCHANGED <<migration_name, fk_option, fk_checks, data_to_migrate,
                   successful_inserts, failed_inserts, skipped_transactions,
                   commits, rollbacks, log>>

\* After the loop (or with no loan at all): the final commit, and the commit
\* of run_script.
FinishSettleTransactions ==
    /\ pc = "settle_transactions"
    /\ i = Len(loan_ids)
    /\ dbc' = db
    /\ pc' = "menu"
    /\ outcome' = "ok"
    /\ UNCHANGED <<i, runs, db, loan_ids, next_tx_id, done, db0, prev_outcome>>
    /\ UNCHANGED <<migration_name, fk_option, fk_checks, data_to_migrate,
                   successful_inserts, failed_inserts, skipped_transactions,
                   commits, rollbacks, log>>

NextSettle ==
    \/ StartSettleTransactions
    \/ SettleLoan
    \/ SettleLoanRaises
    \/ FinishSettleTransactions

SpecSettle == InitSettle /\ [][NextSettle]_vars

-----------------------------------------------------------------------------
(* The early settlement engine: settle_installments, handle_early_settlement *)

\* The loans of the target database.
LoanIds == {1, 2}

\* A migrated installment is fully repaid and has the repayment linked to it,
\* or is unpaid and has no transaction.
InstallmentKinds == {"paid", "unpaid"}

\* A schedule: the kinds of its installments in the order of their sequence
\* numbers, and whether the ids of the rows run against the sequence numbers.
ScheduleShapes ==
    {[kinds |-> k, reversed |-> r] :
        k \in SeqsUpTo(InstallmentKinds, MaxInst), r \in BOOLEAN}

\* The id of installment number k of n of a loan.
InstallmentId(loan_id, shape, k) ==
    (loan_id - 1) * MaxInst
        + (IF shape.reversed THEN Len(shape.kinds) + 1 - k ELSE k)

\* A row of loan_repayment_schedules: principal 10 and an interest that tells
\* the installments of a schedule apart.  written_off stands for the four
\* columns *_written_off_derived and other_waived for fees_waived_derived and
\* penalties_waived_derived, which the engine only reads, as sums.
Installment(loan_id, shape, k) ==
    LET paid == shape.kinds[k] = "paid"
    IN  [id |-> InstallmentId(loan_id, shape, k), loan_id |-> loan_id,
         installment |-> k, principal |-> 10, interest |-> k,
         fees |-> 0, penalties |-> 0,
         principal_repaid_derived |-> IF paid THEN 10 ELSE 0,
         interest_repaid_derived |-> IF paid THEN k ELSE 0,
         fees_repaid_derived |-> 0, penalties_repaid_derived |-> 0,
         written_off |-> 0, interest_waived_derived |-> 0, other_waived |-> 0,
         paid_by_date |-> IF paid THEN k ELSE 0,
         status |-> IF paid THEN "paid" ELSE "pending",
         is_early_repayment |-> FALSE]

\* The tables of the loans with the schedules sh[loan_id].
ScheduleTables(sh) ==
    [loans |->
        {[id |-> l, loan_term |-> Len(sh[l].kinds), status |-> "active"] :
            l \in LoanIds},
     loan_repayment_schedules |->
        UNION {{Installment(l, sh[l], k) : k \in 1..Len(sh[l].kinds)} : l \in LoanIds},
     loan_transactions |->
        UNION {{Tx(InstallmentId(l, sh[l], k), l, 2, 10, k, 0, 10 + k,
                   InstallmentId(l, sh[l], k)) :
                    k \in {j \in 1..Len(sh[l].kinds) : sh[l].kinds[j] = "paid"}} :
               l \in LoanIds}]

\* WHERE lrs.loan_id = %s
installments_of(d, loan_id) ==
    {s \in d.loan_repayment_schedules : s.loan_id = loan_id}

\* ORDER BY lrs.installment ASC LIMIT 1
settlement_installment_first(d, loan_id) ==
    CHOOSE s \in installments_of(d, loan_id) :
        \A u \in installments_of(d, loan_id) : s.installment <= u.installment

\* "Find the settlement installment (the last one)":
\* ORDER BY lrs.installment DESC LIMIT 1
settlement_installment(d, loan_id) ==
    CHOOSE s \in installments_of(d, loan_id) :
        \A u \in installments_of(d, loan_id) : u.installment <= s.installment

\* The expression of unpaid_query: due minus repaid, written off and waived.
outstanding(s) ==
    (s.principal + s.interest + s.fees + s.penalties)
    - (s.principal_repaid_derived + s.interest_repaid_derived
       + s.fees_repaid_derived + s.penalties_repaid_derived)
    - s.written_off
    - (s.interest_waived_derived + s.other_waived)

unpaid_installments(d, loan_id) ==
    {s \in installments_of(d, loan_id) : outstanding(s) > 0}

\* "Find the first unpaid installment": ORDER BY installment ASC LIMIT 1
first_unpaid(d, loan_id) ==
    CHOOSE s \in unpaid_installments(d, loan_id) :
        \A u \in unpaid_installments(d, loan_id) : s.installment <= u.installment

\* SUM(column) over a set of rows; f[row] is the column.
RECURSIVE SumOver(_, _)
SumOver(S, f) ==
    IF S = {} THEN 0
    ELSE LET s == CHOOSE x \in S : TRUE
         IN  f[s] + SumOver(S \ {s}, f)

\* WHERE loan_id = %s ORDER BY id DESC LIMIT 1, and zeros with no transaction
last_balances(d, loan_id) ==
    LET mine == {t \in d.loan_transactions : t.loan_id = loan_id}
    IN  IF mine = {}
        THEN [principal |-> 0, interest |-> 0, fees |-> 0, penalties |-> 0]
        ELSE LET last == CHOOSE t \in mine : \A u \in mine : u.id <= t.id
             IN  [principal |-> last.principal_balance,
                  interest |-> last.interest_balance,
                  fees |-> last.fees_balance,
                  penalties |-> last.penalties_balance]

\* A row inserted by insert_record: the columns not given are NULL.
NewTx(id, loan_id, type, amount, p, n, f, bp, bi, bf, bpen, total) ==
    [Tx(id, loan_id, type, p, n, 0, amount, 0) EXCEPT
        !.fees_repaid_derived = f,
        !.principal_balance = bp, !.interest_balance = bi,
        !.fees_balance = bf, !.penalties_balance = bpen,
        !.total_balance = total]

\* The settlement transaction written only for a positive principal.
settlement_transactions_principal_only(loan_id, nid, fee, total_principal, total_interest, last) ==
    LET fee_tx ==
            IF fee > 0
            THEN <<NewTx(nid, loan_id, 15, fee, 0, 0, 0,
                         last.principal, last.interest, last.fees + fee,
                         last.penalties,
                         last.principal + last.interest + (last.fees + fee)
                            + last.penalties)>>
            ELSE << >>
        nid2 == nid + Len(fee_tx)
        settlement_tx ==
            IF total_principal > 0
            THEN <<NewTx(nid2, loan_id, 14, total_principal + fee,
                         total_principal, 0, fee,
                         0, last.interest, 0, last.penalties,
                         0 + last.interest + 0 + last.penalties)>>
            ELSE << >>
        nid3 == nid2 + Len(settlement_tx)
        interest_tx ==
            IF total_interest > 0
            THEN <<NewTx(nid3, loan_id, 4, total_interest, 0, total_interest, 0,
                         0, 0, 0, last.penalties, 0)>>
            ELSE << >>
    IN  fee_tx \o settlement_tx \o interest_tx

\* The transactions handle_early_settlement inserts, in this order, from id
\* nid on: the fee (type 15), the settlement (type 14), the waiver (type 4).
settlement_transactions(loan_id, nid, fee, total_principal, total_interest, last) ==
    LET fee_tx ==
            IF fee > 0
            THEN <<NewTx(nid, loan_id, 15, fee, 0, 0, 0,
                         last.principal, last.interest, last.fees + fee,
                         last.penalties,
                         last.principal + last.interest + (last.fees + fee)
                            + last.penalties)>>
            ELSE << >>
        nid2 == nid + Len(fee_tx)
        settlement_tx ==
            IF total_principal + fee > 0
            THEN <<NewTx(nid2, loan_id, 14, total_principal + fee,
                         total_principal, 0, fee,
                         0, last.interest, 0, last.penalties,
                         0 + last.interest + 0 + last.penalties)>>
            ELSE << >>
        nid3 == nid2 + Len(settlement_tx)
        interest_tx ==
            IF total_interest > 0
            THEN <<NewTx(nid3, loan_id, 4, total_interest, 0, total_interest, 0,
                         0, 0, 0, last.penalties, 0)>>
            ELSE << >>
    IN  fee_tx \o settlement_tx \o interest_tx

\* handle_early_settlement up to its return or its commit: the tables as the
\* open transaction sees them then, the AUTO_INCREMENT counter, and how the
\* function ended.
handle_early_settlement(d, nid, loan_id) ==
    IF installments_of(d, loan_id) = {}
    THEN [tables |-> d, next_tx_id |-> nid, result |-> "no_installments"]
    ELSE
    LET settlement == settlement_installment(d, loan_id)
        settlement_fee == settlement.interest
        \* DELETE FROM loan_transactions WHERE repayment_schedule_id = %s
        d1 == [d EXCEPT !.loan_transactions =
                {t \in @ : t.repayment_schedule_id # settlement.id}]
    IN  IF unpaid_installments(d1, loan_id) = {}
        THEN [tables |-> d1, next_tx_id |-> nid, result |-> "no_unpaid"]
        ELSE
        LET unpaid_installment_id == first_unpaid(d1, loan_id).id
            \* fees, fees_repaid_derived and is_early_repayment of the unpaid one
            d2 == [d1 EXCEPT !.loan_repayment_schedules =
                    {IF s.id = unpaid_installment_id
                     THEN [s EXCEPT !.fees = settlement_fee,
                                    !.fees_repaid_derived = settlement_fee,
                                    !.is_early_repayment = TRUE]
                     ELSE s : s \in @}]
            \* DELETE FROM loan_repayment_schedules WHERE id = %s
            d3 == [d2 EXCEPT !.loan_repayment_schedules =
                    {s \in @ : s.id # settlement.id}]
            \* loan_term = loan_term - 1
            d4 == [d3 EXCEPT !.loans =
                    {IF l.id = loan_id THEN [l EXCEPT !.loan_term = @ - 1] ELSE l :
                        l \in @}]
            \* WHERE loan_id = %s AND id >= %s
            d5 == [d4 EXCEPT !.loan_repayment_schedules =
                    {IF s.loan_id = loan_id /\ s.id >= unpaid_installment_id
                     THEN [s EXCEPT !.principal_repaid_derived = s.principal,
                                    !.interest_waived_derived = s.interest,
                                    !.paid_by_date = settlement.paid_by_date,
                                    !.status = "payoff"]
                     ELSE s : s \in @}]
            range == {s \in installments_of(d5, loan_id) : s.id >= unpaid_installment_id}
            total_principal == SumOver(range, [s \in range |-> s.principal])
            total_interest == SumOver(range, [s \in range |-> s.interest])
            txs == settlement_transactions(loan_id, nid, settlement_fee,
                        total_principal, total_interest, last_balances(d5, loan_id))
            d6 == [d5 EXCEPT !.loan_transactions =
                    @ \cup {txs[k] : k \in 1..Len(txs)}]
            \* status = 'closed'
            d7 == [d6 EXCEPT !.loans =
                    {IF l.id = loan_id THEN [l EXCEPT !.status = "closed"] ELSE l :
                        l \in @}]
        IN  [tables |-> d7, next_tx_id |-> nid + Len(txs), result |-> "settled"]

\* What the database holds of one loan.
LoanView(d, loan_id) ==
    [loan |-> {l \in d.loans : l.id = loan_id},
     installments |-> installments_of(d, loan_id),
     transactions |-> {t \in d.loan_transactions : t.loan_id = loan_id}]

\* conn.commit() at the end of handle_early_settlement: the committed tables
\* after it, from the committed tables c and the open transaction's w.
per_loan_commit_none(c, w) == c

per_loan_commit(c, w) == w

InitEarly ==
    /\ pc = "menu"
    /\ migration_name = "loans"
    /\ fk_option = "1"
    /\ fk_checks = 1
    /\ data_to_migrate = << >>
    /\ i = 0
    /\ successful_inserts = 0
    /\ failed_inserts = 0
    /\ skipped_transactions = 0
    /\ commits = 0
    /\ rollbacks = 0
    /\ outcome = "none"
    /\ log = << >>
    /\ runs = 0
    /\ \E sh \in [LoanIds -> ScheduleShapes] : db = ScheduleTables(sh)
    /\ dbc = db
    /\ loan_ids = << >>
    /\ next_tx_id = Cardinality(LoanIds) * MaxInst + 1
    /\ done = << >>
    /\ db0 = db
    /\ prev_outcome = "none"

\* choice == str(installments_option): START TRANSACTION, then
\* settle_installments up to its loop; keys are the loans the source database
\* marks as settled early (resc_type = 3).
StartSettleInstallments ==
    /\ pc = "menu"
    /\ runs < MaxEarlyRuns
    /\ \E keys \in SUBSET LoanIds :
        loan_ids' = Ascending({l.id : l \in {m \in db.loans : m.id \in keys}})
    /\ pc' = "settle_installments"
    /\ i' = 0
    /\ runs' = runs + 1
    /\ done' = << >>
    /\ db0' = dbc
    /\ prev_outcome' = outcome
    /\ outcome' = "running"
    /\ UNCHANGED <<db, dbc, next_tx_id>>
    /\ UNCHANGED <<migration_name, fk_option, fk_checks, data_to_migrate,
                   successful_inserts, failed_inserts, skipped_transactions,
                   commits, rollbacks, log>>

\* One loan of "for loan in early_settled_loans": handle_early_settlement
\* returns, after its commit or at one of its early returns.
HandleLoan ==
    /\ pc = "settle_installments"
    /\ i < Len(loan_ids)
    /\ LET r == handle_early_settlement(db, next_tx_id, loan_ids[i + 1])
       IN  /\ db' = r.tables
           /\ dbc' = IF r.result = "settled"
                     THEN per_loan_commit(dbc, r.tables)
                     ELSE dbc
           /\ next_tx_id' = r.next_tx_id
           /\ done' = Append(done, [loan_id |-> loan_ids[i + 1],
                                    result |-> r.result,
                                    view |-> LoanView(r.tables, loan_ids[i + 1])])
    /\ i' = i + 1
    /\ UNCHANGED <<pc, outcome, runs, loan_ids, db0, prev_outcome>>
    /\ UNCHANGED <<migration_name, fk_option, fk_checks, data_to_migrate,
                   successful_inserts, failed_inserts, skipped_transactions,
                   commits, rollbacks, log>>

\* A statement of handle_early_settlement raises for loan i + 1, when some
\* of its INSERTs have been executed: its except clause rolls back and raises again,
\* the one of settle_installments rolls back and raises again, and run_script
\* rolls back and goes back to the menu.
HandleLoanRaises ==
    /\ pc = "settle_installments"
    /\ i < Len(loan_ids)
    /\ \E inserted \in 0..(handle_early_settlement(db, next_tx_id, loan_ids[i + 1]).next_tx_id
                            - next_tx_id) :
        next_tx_id' = next_tx_id + inserted
    /\ db' = dbc
    /\ pc' = "menu"
    /\ outcome' = "error"
    /\ UNCHANGED <<i, runs, dbc, loan_ids, done, db0, prev_outcome>>
    /\ UNCHANGED <<migration_name, fk_option, fk_checks, data_to_migrate,
                   successful_inserts, failed_inserts, skipped_transactions,
                   commits, rollbacks, log>>

\* After the loop, or with no loan to settle: settle_installments returns and
\* run_script commits.
FinishSettleInstallments ==
    /\ pc = "settle_installments"
    /\ i = Len(loan_ids)
    /\ dbc' = db
    /\ pc' = "menu"
    /\ outcome' = "ok"
    /\ UNCHANGED <<i, runs, db, loan_ids, next_tx_id, done, db0, prev_outcome>>
    /\ UNCHANGED <<migration_name, fk_option, fk_checks, data_to_migrate,
                   successful_inserts, failed_inserts, skipped_transactions,
                   commits, rollbacks, log>>

NextEarly ==
    \/ StartSettleInstallments
    \/ HandleLoan
    \/ HandleLoanRaises
    \/ FinishSettleInstallments

SpecEarly == InitEarly /\ [][NextEarly]_vars

\* Schedules of one loan with amounts that vary: an installment is paid or
\* not, has a principal or none, and an interest (the fee, on the last
\* installment) or none.
AmountKinds == [paid : BOOLEAN, principal : {0, 10}, interest : {0, 3}]

\* Installment number k of the schedule a of loan 1, and its repayment.
AmountInstallment(a, k) ==
    [Installment(1, [kinds |-> [j \in 1..Len(a) |-> "unpaid"], reversed |-> FALSE], k)
        EXCEPT !.principal = a[k].principal,
               !.interest = a[k].interest,
               !.principal_repaid_derived = IF a[k].paid THEN a[k].principal ELSE 0,
               !.interest_repaid_derived = IF a[k].paid THEN a[k].interest ELSE 0,
               !.paid_by_date = IF a[k].paid THEN k ELSE 0,
               !.status = IF a[k].paid THEN "paid" ELSE "pending"]

\* The tables of loan 1 with the schedule a and of loan 2 with no schedule;
\* with settled, loan 1 has an earlier transaction that carries balances.
AmountTables(a, settled) ==
    [loans |->
        {[id |-> 1, loan_term |-> Len(a), status |-> "active"],
         [id |-> 2, loan_term |-> 0, status |-> "active"]},
     loan_repayment_schedules |-> {AmountInstallment(a, k) : k \in 1..Len(a)},
     loan_transactions |->
        {Tx(k, 1, 2, a[k].principal, a[k].interest, 0,
            a[k].principal + a[k].interest, k) :
                k \in {j \in 1..Len(a) : a[j].paid}}
        \cup (IF settled
              THEN {NewTx(MaxInst + 1, 1, 1, 20, 0, 0, 0, 20, 6, 1, 2, 29)}
              ELSE {})]

InitEarlyAmounts ==
    /\ pc = "menu"
    /\ migration_name = "loans"
    /\ fk_option = "1"
    /\ fk_checks = 1
    /\ data_to_migrate = << >>
    /\ i = 0
    /\ successful_inserts = 0
    /\ failed_inserts = 0
    /\ skipped_transactions = 0
    /\ commits = 0
    /\ rollbacks = 0
    /\ outcome = "none"
    /\ log = << >>
    /\ runs = 0
    /\ \E a \in SeqsUpTo(AmountKinds, MaxInst), settled \in BOOLEAN :
        db = AmountTables(a, settled)
    /\ dbc = db
    /\ loan_ids = << >>
    /\ next_tx_id = Cardinality(LoanIds) * MaxInst + 1
    /\ done = << >>
    /\ db0 = db
    /\ prev_outcome = "none"

SpecEarlyAmounts == InitEarlyAmounts /\ [][NextEarly]_vars

-----------------------------------------------------------------------------
(* CustomLogic.process_columns: the rows of one migration, with their amounts *)

\* The driver and the database at rest, for the specifications of a single row.
IdleRun ==
    /\ fk_option = "1"
    /\ fk_checks = 1
    /\ i = 0
    /\ successful_inserts = 0
    /\ failed_inserts = 0
    /\ skipped_transactions = 0
    /\ commits = 0
    /\ rollbacks = 0
    /\ outcome = "none"
    /\ runs = 0
    /\ db = EmptyTables
    /\ dbc = EmptyTables
    /\ loan_ids = << >>
    /\ next_tx_id = 1
    /\ done = << >>
    /\ db0 = EmptyTables
    /\ prev_outcome = "none"

\* A column of a source row is NULL or <<v>>, with v its value.
NULL == << >>

\* The amounts of a source row: NULL or an integer of either sign.
AmountValues == {NULL} \cup {<<v>> : v \in -MaxAmount..MaxAmount}

\* Every mapped source type code and one without a mapping.
TransActCodes == DOMAIN trans_type_mapping \cup {5}

\* A transactions row as process_columns gets it: the source type code, the
\* three amounts of row_data, and whether the loan of loan_key was found
\* (row_data["loan_id"] is set).
TransactionSources ==
    [trans_act : TransActCodes, amount : AmountValues,
     interest_repaid_derived : AmountValues,
     penalties_repaid_derived : AmountValues, loan_found : BOOLEAN]

\* Whether the INSERT of the penalty, of the fee transaction raises.
SideFaults == [penalty : BOOLEAN, fee : BOOLEAN]

\* "if row_data.get(...) is None: row_data[...] = 0"
coalesce(v) == IF v = NULL THEN 0 ELSE v[1]

\* abs(value)
abs(v) == IF v < 0 THEN -v ELSE v

\* A side-channel transaction; a column that is not given is 0, and inserted
\* tells whether its INSERT went through (a failure is logged and dropped).
SideTx(type, amount, debit, credit, pen, fees, inserted) ==
    [loan_transaction_type_id |-> type, amount |-> amount, debit |-> debit,
     credit |-> credit, penalties_repaid_derived |-> pen,
     fees_repaid_derived |-> fees, inserted |-> inserted]

\* "Create a separate transaction for penalties": with no loan_id there is none.
penalties_transaction_without_loan(src, f) ==
    LET penalties_amount == coalesce(src.penalties_repaid_derived)
        adjusted == IF src.trans_act \in cancellation_types
                    THEN -penalties_amount ELSE penalties_amount
    IN  IF penalties_amount > 0
        THEN <<SideTx(12, adjusted, adjusted, 0, adjusted, 0, ~f.penalty)>>
        ELSE << >>

penalties_transaction(src, f) ==
    LET penalties_amount == coalesce(src.penalties_repaid_derived)
        adjusted == IF src.trans_act \in cancellation_types
                    THEN -penalties_amount ELSE penalties_amount
    IN  IF penalties_amount > 0 /\ src.loan_found
        THEN <<SideTx(12, adjusted, adjusted, 0, adjusted, 0, ~f.penalty)>>
        ELSE << >>

\* "Create a separate transaction for apply charges"
fees_transaction(src, f) ==
    LET fees_amount == coalesce(src.amount)
        adjusted == IF src.trans_act = 18 THEN -fees_amount ELSE fees_amount
    IN  IF src.trans_act \in {17, 18} /\ src.loan_found /\ fees_amount > 0
        THEN <<SideTx(2, adjusted, 0, adjusted, 0, adjusted, ~f.fee)>>
        ELSE << >>

\* "For cancellation transaction types, make the amount negative if it's not
\* already"
make_negative_keeps_sign(v) == v

make_negative(v) == IF v > 0 THEN -v ELSE v

credit_types_disbursement_only == {1}

\* "if trans_type_mapping[trans_type] in [1, 10]": the target types whose
\* amount goes to the debit column.
credit_types == {1, 10}

\* The transactions branch of process_columns for one row:
\*   side  the side-channel transactions, in the order of their INSERTs,
\*         all of them before the skip decision
\*   skip  row_data["_skip_this_row"] was set
\*   row   the columns of row_data at the return (type, debit and credit are
\*         0 when the row is skipped before they are set)
transactions_branch(src, f) ==
    LET side == penalties_transaction(src, f) \o fees_transaction(src, f)
        a == abs(coalesce(src.amount))
        n == abs(coalesce(src.interest_repaid_derived))
        p == abs(coalesce(src.penalties_repaid_derived))
        principal == a - n
        amount == a + p
        cancel == src.trans_act \in cancellation_types
        amount2 == IF cancel THEN make_negative(amount) ELSE amount
        n2 == IF cancel THEN make_negative(n) ELSE n
        p2 == IF cancel THEN make_negative(p) ELSE p
        principal2 == IF cancel THEN amount2 - n2 ELSE principal
    IN  IF src.trans_act \notin DOMAIN trans_type_mapping
        THEN [side |-> side, skip |-> TRUE,
              row |-> [amount |-> amount, interest_repaid_derived |-> n,
                       penalties_repaid_derived |-> p,
                       principal_repaid_derived |-> principal,
                       loan_transaction_type_id |-> 0, debit |-> 0, credit |-> 0]]
        ELSE LET type == trans_type_mapping[src.trans_act]
             IN  [side |-> side, skip |-> FALSE,
                  row |-> [amount |-> amount2, interest_repaid_derived |-> n2,
                           penalties_repaid_derived |-> p2,
                           principal_repaid_derived |-> principal2,
                           loan_transaction_type_id |-> type,
                           debit |-> IF type \in credit_types THEN amount2 ELSE 0,
                           credit |-> IF type \in credit_types THEN 0 ELSE amount2]]

InitTransactionsRow ==
    /\ pc = "row"
    /\ migration_name = "transactions"
    /\ data_to_migrate \in {<<src>> : src \in TransactionSources}
    /\ log = << >>
    /\ IdleRun

\* process_columns for the row, with the INSERTs of its side-channel
\* transactions.
ProcessTransactionsRow ==
    /\ pc = "row"
    /\ migration_name = "transactions"
    /\ \E f \in SideFaults :
        LET r == transactions_branch(data_to_migrate[1], f)
        IN  /\ log' = <<r>>
            /\ skipped_transactions' = skipped_transactions + (IF r.skip THEN 1 ELSE 0)
    /\ pc' = "processed"
    /\ UNCHANGED <<migration_name, fk_option, fk_checks, data_to_migrate, i,
                   successful_inserts, failed_inserts, commits, rollbacks,
                   outcome, runs>>
    /\ UNCHANGED dvars

SpecTransactionsRow == InitTransactionsRow /\ [][ProcessTransactionsRow]_vars

\* ---- loans ----

\* loan_status codes of the source: the four with a status of their own, one
\* without, and NULL.
LoanStatusCodes == {NULL, <<0>>, <<1>>, <<5>>, <<6>>, <<3>>}

\* loan_cond of the source: normal, written off, NULL.
LoanConds == {NULL, <<0>>, <<2>>}

\* The years of the disbursement dates: a common year and a leap year.
Years == {2023, 2024}

IsLeap(y) == (y % 4 = 0 /\ y % 100 # 0) \/ y % 400 = 0

\* The days of month m of year y, as datetime checks them.
DaysIn(y, m) ==
    IF m = 2 THEN (IF IsLeap(y) THEN 29 ELSE 28)
    ELSE IF m \in {4, 6, 9, 11} THEN 30
    ELSE 31

\* A date is <<[year, month, day]>>, or NULL.
Dates ==
    {<<[year |-> y, month |-> m, day |-> dd]>> :
        y \in Years, m \in 1..12, dd \in 1..31}

ValidDates == {dt \in Dates : dt[1].day <= DaysIn(dt[1].year, dt[1].month)}

\* A loans row as process_columns gets it.
LoanSources ==
    [loan_status : LoanStatusCodes, loan_cond : LoanConds,
     fully_paid_date : {NULL, <<[year |-> 2024, month |-> 6, day |-> 1]>>},
     approved_amount : {NULL, <<0>>, <<MaxAmount>>},
     disbursed_on_date : {NULL} \cup ValidDates]

\* The status by the loan_status code alone.
loan_status_by_code(src) ==
    IF src.loan_status = <<0>> THEN "submitted"
    ELSE IF src.loan_status = <<1>> THEN "active"
    ELSE IF src.loan_status = <<5>> THEN "closed"
    ELSE IF src.loan_status = <<6>> THEN "withdrawn"
    ELSE "pending"

\* "Loan status mapping"
derive_loan_status(src) ==
    IF src.loan_cond = <<2>> /\ src.fully_paid_date # NULL
    THEN "written_off"
    ELSE IF src.loan_status = <<0>> THEN "submitted"
    ELSE IF src.loan_status = <<1>> THEN "active"
    ELSE IF src.loan_status = <<5>> THEN "closed"
    ELSE IF src.loan_status = <<6>> THEN "withdrawn"
    ELSE "pending"

\* "Handle month overflow", without the step into the next year.
next_month_same_year(dt) ==
    IF dt.month + 1 > 12
    THEN [year |-> dt.year, month |-> 1]
    ELSE [year |-> dt.year, month |-> dt.month + 1]

\* "month = disbursed_date.month + 1 ... Handle month overflow"
next_month(dt) ==
    IF dt.month + 1 > 12
    THEN [year |-> dt.year + 1, month |-> 1]
    ELSE [year |-> dt.year, month |-> dt.month + 1]

\* The day before the first of month m of year y.
day_before_first(y, m) ==
    IF m = 1
    THEN [year |-> y - 1, month |-> 12, day |-> 31]
    ELSE [year |-> y, month |-> m - 1, day |-> DaysIn(y, m - 1)]

\* "Set first_payment_date to one month after disbursed_on_date":
\* disbursed_date.replace(year, month) raises ValueError when the day is not
\* in the month; then the last day of that month is taken.
first_payment_date(dt) ==
    LET target == next_month(dt)
    IN  IF dt.day <= DaysIn(target.year, target.month)
        THEN [year |-> target.year, month |-> target.month, day |-> dt.day]
        ELSE IF target.month = 12
             THEN day_before_first(target.year + 1, 1)
             ELSE day_before_first(target.year, target.month + 1)

\* The loans branch of process_columns for one row: the columns of row_data
\* that the source row decides (first_payment_date NULL: the key is not set).
loans_branch(src) ==
    LET status == derive_loan_status(src)
    IN  [status |-> status,
         principal_disbursed_derived |->
            IF status # "approved" THEN src.approved_amount ELSE NULL,
         first_payment_date |->
            IF src.disbursed_on_date # NULL
            THEN <<first_payment_date(src.disbursed_on_date[1])>>
            ELSE NULL]

InitLoansRow ==
    /\ pc = "row"
    /\ migration_name = "loans"
    /\ data_to_migrate \in {<<src>> : src \in LoanSources}
    /\ log = << >>
    /\ IdleRun

\* process_columns for the row.
ProcessLoansRow ==
    /\ pc = "row"
    /\ migration_name = "loans"
    /\ log' = <<loans_branch(data_to_migrate[1])>>
    /\ pc' = "processed"
    /\ UNCHANGED <<migration_name, fk_option, fk_checks, data_to_migrate, i,
                   successful_inserts, failed_inserts, skipped_transactions,
                   commits, rollbacks, outcome, runs>>
    /\ UNCHANGED dvars

SpecLoansRow == InitLoansRow /\ [][ProcessLoansRow]_vars

\* ---- installments ----

\* The amounts of an installments row that the branch computes with: not NULL
\* (float(None) raises and the row fails).
InstallmentAmounts == -MaxAmount..MaxAmount

\* An installments row as process_columns gets it: the four blended amounts,
\* the fees and paid_by_date of row_data, whether the source row has a column
\* inst_cond, inst_cond and inst_status of the source row, and the status of
\* the loan in the target (NULL: the loan was not found).
InstallmentSources ==
    [principal : InstallmentAmounts, principal_repaid_derived : InstallmentAmounts,
     interest : InstallmentAmounts, interest_repaid_derived : InstallmentAmounts,
     fees : {-1, 1},
     paid_by_date : {NULL, <<[year |-> 2024, month |-> 6, day |-> 1]>>},
     has_inst_cond : BOOLEAN, inst_cond : {<<0>>, <<2>>},
     inst_status : {NULL, <<0>>, <<8>>},
     loan_status : {NULL, <<"active">>, <<"written_off">>}]

\* The status with the rescheduled rule before the written-off rule.
derive_installment_status_rescheduled_first(src, principal, principal_repaid_derived) ==
    IF src.has_inst_cond /\ src.inst_status = <<8>>
    THEN "rescheduled"
    ELSE IF src.has_inst_cond
            /\ src.loan_status = <<"written_off">> /\ src.inst_cond = <<2>>
    THEN "written_off"
    ELSE IF principal > principal_repaid_derived THEN "active" ELSE "closed"

\* "Determine status based on inst_cond and inst_status", with the
\* normalised principal and principal_repaid_derived.
derive_installment_status(src, principal, principal_repaid_derived) ==
    IF src.has_inst_cond
    THEN IF src.loan_status = <<"written_off">> /\ src.inst_cond = <<2>>
         THEN "written_off"
         ELSE IF src.inst_status = <<8>>
              THEN "rescheduled"
              ELSE IF principal > principal_repaid_derived THEN "active" ELSE "closed"
    ELSE IF principal > principal_repaid_derived THEN "active" ELSE "closed"

\* The installments branch of process_columns for one row: the columns of
\* row_data at the return.
installments_branch(src) ==
    LET principal == abs(src.principal)
        principal_repaid_derived == abs(src.principal_repaid_derived)
        interest == abs(src.interest)
        interest_repaid_derived == abs(src.interest_repaid_derived)
        fees == abs(src.fees)
        status == derive_installment_status(src, principal, principal_repaid_derived)
    IN  [status |-> status,
         paid_by_date |-> IF status = "active" THEN NULL ELSE src.paid_by_date,
         interest |-> interest,
         interest_repaid_derived |-> interest_repaid_derived,
         fees |-> fees,
         principal |-> principal - interest,
         principal_repaid_derived |-> principal_repaid_derived - interest_repaid_derived]

InitInstallmentsRow ==
    /\ pc = "row"
    /\ migration_name = "installments"
    /\ data_to_migrate \in {<<src>> : src \in InstallmentSources}
    /\ log = << >>
    /\ IdleRun

\* process_columns for the row.
ProcessInstallmentsRow ==
    /\ pc = "row"
    /\ migration_name = "installments"
    /\ log' = <<installments_branch(data_to_migrate[1])>>
    /\ pc' = "processed"
    /\ UNCHANGED <<migration_name, fk_option, fk_checks, data_to_migrate, i,
                   successful_inserts, failed_inserts, skipped_transactions,
                   commits, rollbacks, outcome, runs>>
    /\ UNCHANGED dvars

SpecInstallmentsRow == InitInstallmentsRow /\ [][ProcessInstallmentsRow]_vars

-----------------------------------------------------------------------------
(* Properties of the migration driver *)

\* The row loop of the last run was left at its end: the run reached its
\* commit-or-rollback decision.
RunDecided == pc = "menu" /\ outcome \in {"committed", "rolledback", "end_error"}

MainInsertOk(e) == e.main = "ok"

\* A row the driver counts as successful: its main insert was executed
\* without error and its linked-charge insert, if any, did not fail.
CountedSuccessful(e) == e.main = "ok" /\ e.charge # "err"

C2_FailureNeverAbortsBatch ==
    /\ pc = "loop" => commits + rollbacks = 0 /\ Len(log) = i
    /\ outcome # "row_error"
    /\ commits + rollbacks > 0 =>
          /\ Len(log) = Len(data_to_migrate)
          /\ \A k \in 1..Len(log) : log[k].row = data_to_migrate[k]
    /\ \A k \in 1..Len(log) : log[k].caught => (pc = "loop" \/ RunDecided)

\* A row was caught by the loop's except clause, a later row was inserted,
\* and the run went on to commit.
C2_Witness ==
    /\ pc = "menu" /\ outcome = "committed"
    /\ \E k \in 1..Len(log) - 1 :
          /\ log[k].caught
          /\ log[k + 1].main = "ok"

\* C3 as stated: for a transactions row whose trans_act has no mapping, the
\* driver executes no insert into the target table and skipped_transactions
\* grows by exactly 1.
C3_UnmappedRowNotInserted ==
    \A k \in 1..Len(log) :
        (/\ migration_name = "transactions"
         /\ log[k].returned
         /\ log[k].row.trans_act \notin DOMAIN trans_type_mapping)
        => (log[k].main = "none" /\ log[k].dskip = 1)

\* C10 as stated: whenever control is back at the main menu, foreign-key
\* checks are enabled, also after a run that disabled them and whose START
\* TRANSACTION, commit or rollback raised.
C10_ForeignKeyChecksRestored == pc = "menu" => fk_checks = 1

\* C17: the side effects of a loans row (charge, loan profiles, guarantor
\* links, location) are best-effort: when the main insert of a row has
\* succeeded, a failure of a side effect does not keep the later ones from
\* being attempted and does not abort the row, and the row is counted as
\* successful and not as failed.
\* (Violated: a failing charge insert moves the row from successful_inserts to
\* failed_inserts, and the location insert is in no try of its own, so its
\* failure ends in the except clause of the row and counts the row as failed.)
C17_SideEffectsBestEffort ==
    migration_name = "loans" =>
        /\ \A k \in 1..Len(log) :
            MainInsertOk(log[k]) =>
                /\ ~log[k].caught
                /\ log[k].row.charge => log[k].charge # "none"
                /\ log[k].row.latlon => log[k].location # "none"
        /\ successful_inserts = Cardinality({k \in 1..Len(log) : MainInsertOk(log[k])})
        /\ failed_inserts = Cardinality({k \in 1..Len(log) : ~MainInsertOk(log[k])})

\* C27: in a migration run every source row is counted once: while the loop
\* runs and at its end successful_inserts + failed_inserts is the number of
\* rows processed, neither counter is negative, and no row is counted both
\* as successful and as failed.
C27_EveryRowCountedOnce ==
    (pc = "loop" \/ outcome \in {"row_error", "committed", "rolledback", "end_error"}) =>
        /\ successful_inserts + failed_inserts = Len(log)
        /\ successful_inserts >= 0
        /\ failed_inserts >= 0

-----------------------------------------------------------------------------
(* Properties of the transaction settlement engine *)

\* The four balance columns of a transaction row.
BalanceColumns(t) ==
    <<t.principal_balance, t.interest_balance, t.penalties_balance, t.total_balance>>

\* Every transaction of the tables d has the balance columns it has in e.
SameBalances(d, e) ==
    \A t \in d.loan_transactions :
        \E u \in e.loan_transactions :
            u.id = t.id /\ BalanceColumns(u) = BalanceColumns(t)

\* C4: settle_transactions is idempotent on the balance columns: when a run
\* that follows a successful run has succeeded, every transaction has the
\* principal, interest, penalties and total balance the first run wrote.
\* (Violated: the first run sets the repaid columns of a disbursement to 0, and
\* the second run reads the balances of the disbursement from those columns.)
C4_SecondRunKeepsBalances ==
    (pc = "menu" /\ outcome = "ok" /\ prev_outcome = "ok") => SameBalances(dbc, db0)

\* C5: when settle_transactions fails at a loan, the whole run is rolled back:
\* no transaction keeps balance values written by the run.
\* (Violated: the loop commits after every CommitBatch loans, so that a failure
\* at a later loan leaves the balances of the first CommitBatch loans written.)
C5_FailureRollsBackWholeRun ==
    (pc = "menu" /\ outcome = "error") => SameBalances(dbc, db0)

\* The balances (principal, interest, penalties) after the transactions
\* txs[1..k] of a loan, from (0, 0, 0), by the rules of the settlement.
RECURSIVE ReplayTo(_, _)
ReplayTo(txs, k) ==
    IF k = 0 THEN <<0, 0, 0>>
    ELSE LET b == ReplayTo(txs, k - 1)
             t == txs[k]
         IN  CASE t.loan_transaction_type_id = 10 ->
                    <<b[1], b[2], b[3] + t.amount>>
               [] t.loan_transaction_type_id = 1 ->
                    <<t.principal_repaid_derived, t.interest_repaid_derived, b[3]>>
               [] t.loan_transaction_type_id \in {2, 6} ->
                    <<b[1] - t.principal_repaid_derived,
                      b[2] - t.interest_repaid_derived,
                      b[3] - t.penalties_repaid_derived>>
               [] OTHER -> b

\* The transactions of the loan of t before the run, in ascending id.
HistoryOf(t) == OrderById({u \in db0.loan_transactions : u.loan_id = t.loan_id})

\* C11: after settle_transactions, the principal, interest and penalties
\* balance of every transaction are the result of replaying the transactions
\* of its loan, as they were before the run, in ascending id up to and
\* including it: type 10 adds the amount to penalties, type 1 resets principal
\* and interest to its own repaid fields, types 2 and 6 subtract their repaid
\* fields, any other type leaves the balances.
C11_BalancesAreTheReplay ==
    (pc = "menu" /\ outcome = "ok") =>
        \A t \in dbc.loan_transactions :
            \E k \in 1..Len(HistoryOf(t)) :
                /\ HistoryOf(t)[k].id = t.id
                /\ <<t.principal_balance, t.interest_balance, t.penalties_balance>>
                       = ReplayTo(HistoryOf(t), k)

\* A first run has settled a loan with a repayment followed by a
\* disbursement: the disbursement resets the negative balances.
C11_Witness ==
    /\ pc = "menu"
    /\ outcome = "ok"
    /\ prev_outcome = "none"
    /\ \E t, u \in dbc.loan_transactions :
        /\ t.loan_id = u.loan_id
        /\ t.id < u.id
        /\ t.loan_transaction_type_id = 2
        /\ t.principal_balance = -2
        /\ u.loan_transaction_type_id = 1
        /\ u.principal_balance = 2

\* C12: after settle_transactions, every transaction of a loan has
\* total_balance = principal_balance + interest_balance + penalties_balance.
C12_TotalIsSumOfBalances ==
    (pc = "menu" /\ outcome = "ok") =>
        \A t \in dbc.loan_transactions :
            t.total_balance =
                t.principal_balance + t.interest_balance + t.penalties_balance

\* A run has written balances with penalties and principal on a transaction.
C12_Witness ==
    /\ pc = "menu"
    /\ outcome = "ok"
    /\ \E t \in dbc.loan_transactions :
        /\ t.penalties_balance # 0
        /\ t.principal_balance # 0
        /\ t.total_balance # 0

\* C24: settle_transactions inserts and deletes no transaction and changes,
\* beside the balance columns, only principal_repaid_derived and
\* interest_repaid_derived, which it sets to 0 on the transactions of type 1
\* and type 10 only; on every other transaction the repaid columns, the
\* amount and the type are as they were when the run started.
C24_OnlyBalancesAndClearedRepaid ==
    /\ {t.id : t \in db.loan_transactions} = {t.id : t \in db0.loan_transactions}
    /\ \A t \in db.loan_transactions :
         \E t0 \in db0.loan_transactions :
            /\ t0.id = t.id
            /\ t.loan_id = t0.loan_id
            /\ t.loan_transaction_type_id = t0.loan_transaction_type_id
            /\ t.amount = t0.amount
            /\ t.penalties_repaid_derived = t0.penalties_repaid_derived
            /\ t.fees_repaid_derived = t0.fees_repaid_derived
            /\ t.repayment_schedule_id = t0.repayment_schedule_id
            /\ IF t.loan_transaction_type_id \in {1, 10}
               THEN /\ t.principal_repaid_derived \in {0, t0.principal_repaid_derived}
                    /\ t.interest_repaid_derived \in {0, t0.interest_repaid_derived}
                    /\ (pc = "menu" /\ outcome = "ok") =>
                          /\ t.principal_repaid_derived = 0
                          /\ t.interest_repaid_derived = 0
               ELSE /\ t.principal_repaid_derived = t0.principal_repaid_derived
                    /\ t.interest_repaid_derived = t0.interest_repaid_derived

\* A finished run over a loan with a disbursement, whose repaid columns were
\* cleared, and a repayment, whose repaid columns, written with a new
\* balance, are as before.
C24_Witness ==
    /\ pc = "menu" /\ outcome = "ok"
    /\ \E t \in db.loan_transactions, t0 \in db0.loan_transactions :
         /\ t.id = t0.id /\ t.loan_transaction_type_id = 1
         /\ t0.principal_repaid_derived = 2 /\ t.principal_repaid_derived = 0
         /\ t0.interest_repaid_derived = 1 /\ t.interest_repaid_derived = 0
    /\ \E t \in db.loan_transactions, t0 \in db0.loan_transactions :
         /\ t.id = t0.id /\ t.loan_transaction_type_id = 2
         /\ t.principal_repaid_derived = 2 /\ t.interest_repaid_derived = 1
         /\ t.principal_balance # t0.principal_balance

-----------------------------------------------------------------------------
(* Properties of the early settlement engine *)

\* The loans of the current run for which handle_early_settlement ended as r.
Handled(r) == {k \in 1..Len(done) : done[k].result = r}

\* The one row of loans of a view.
LoanRow(view) == CHOOSE l \in view.loan : TRUE

InstallmentIds(S) == {s.id : s \in S}

\* C6: after handle_early_settlement has settled a loan (one with an
\* installment and an unpaid installment), the loan_term of the loan is 1 less
\* than before, the loan has one installment row fewer, the missing row is the
\* one that had the highest installment number, and the status is 'closed'.
C6_TermAndLastInstallmentRemoved ==
    \A k \in Handled("settled") :
        LET loan_id == done[k].loan_id
            before == LoanView(db0, loan_id)
            after == done[k].view
        IN  /\ LoanRow(after).loan_term = LoanRow(before).loan_term - 1
            /\ Cardinality(after.installments) = Cardinality(before.installments) - 1
            /\ \E s \in before.installments :
                /\ \A u \in before.installments : u.installment <= s.installment
                /\ InstallmentIds(after.installments) =
                       InstallmentIds(before.installments) \ {s.id}
            /\ LoanRow(after).status = "closed"

\* A loan with two installments, the first of them unpaid, has been settled.
C6_Witness ==
    \E k \in Handled("settled") :
        /\ Cardinality(installments_of(db0, done[k].loan_id)) = 2
        /\ first_unpaid(db0, done[k].loan_id).installment = 1
        /\ Cardinality(done[k].view.installments) = 1

\* C7: after handle_early_settlement has settled a loan, exactly one
\* installment of the loan has is_early_repayment set; it is the installment
\* that was the first unpaid one, it is not the deleted last installment, and
\* its fees and fees_repaid_derived are the interest of the deleted one.
\* (Violated when the first unpaid installment is the last installment: the
\* row is marked and then deleted.)
C7_OneMarkedInstallmentRemains ==
    \A k \in Handled("settled") :
        LET loan_id == done[k].loan_id
            deleted == settlement_installment(db0, loan_id)
            marked == {s \in done[k].view.installments : s.is_early_repayment}
        IN  /\ Cardinality(marked) = 1
            /\ \A s \in marked :
                /\ s.id = first_unpaid(db0, loan_id).id
                /\ s.id # deleted.id
                /\ s.fees = deleted.interest
                /\ s.fees_repaid_derived = deleted.interest

\* C8: a loan with no unpaid installment is left as it was: when the run of
\* settle_installments has ended and run_script has committed, the loan's
\* transactions, installments, loan_term and status are those of before.
\* (Violated: the transactions linked to the last installment are deleted
\* before the unpaid installment is looked for, and the return does not roll
\* back.)
C8_NoUnpaidLoanUnchanged ==
    (pc = "menu" /\ outcome = "ok") =>
        \A k \in Handled("no_unpaid") :
            LoanView(dbc, done[k].loan_id) = LoanView(db0, done[k].loan_id)

C13_PayoffRangeBySequence ==
    \A k \in Handled("settled") :
        LET loan_id == done[k].loan_id
            first == first_unpaid(db0, loan_id)
            settlement == settlement_installment(db0, loan_id)
        IN  \A s \in done[k].view.installments :
                \E o \in installments_of(db0, loan_id) :
                    /\ o.id = s.id
                    /\ IF o.installment >= first.installment
                       THEN /\ s.principal_repaid_derived = s.principal
                            /\ s.interest_waived_derived = s.interest
                            /\ s.paid_by_date = settlement.paid_by_date
                            /\ s.status = "payoff"
                       ELSE s = o

\* The transactions of a loan that handle_early_settlement inserted, in the
\* order of their ids: those of the view that the tables before did not have.
Inserted(k) ==
    OrderById({t \in done[k].view.transactions :
                \A u \in db0.loan_transactions : u.id # t.id})

\* The installments of the loan of done[k] that the payoff UPDATE selected.
PayoffRange(k) ==
    {s \in done[k].view.installments :
        s.id >= first_unpaid(db0, done[k].loan_id).id}

\* The transactions of the loan of done[k] that the inserts found: those of
\* before without the ones linked to the settlement installment.
Baseline(k) ==
    {t \in db0.loan_transactions :
        /\ t.loan_id = done[k].loan_id
        /\ t.repayment_schedule_id # settlement_installment(db0, done[k].loan_id).id}

\* C14: handle_early_settlement inserts at most three transactions, in this
\* order: type 15 iff the fee > 0, with fees_balance = baseline fees_balance
\* + fee; type 14 iff the principal of the payoff range + fee > 0, with that
\* sum as amount and principal_balance = fees_balance = 0; type 4 iff the
\* interest of the payoff range > 0, with interest_balance = total_balance
\* = 0.  The baseline is the highest-id transaction of the loan, or zeros.
C14_SyntheticTransactions ==
    \A k \in Handled("settled") :
        LET fee == settlement_installment(db0, done[k].loan_id).interest
            range == PayoffRange(k)
            total_principal == SumOver(range, [s \in range |-> s.principal])
            total_interest == SumOver(range, [s \in range |-> s.interest])
            baseline_fees ==
                IF Baseline(k) = {} THEN 0
                ELSE (CHOOSE t \in Baseline(k) :
                        \A u \in Baseline(k) : u.id <= t.id).fees_balance
            new == Inserted(k)
        IN  /\ Len(new) <= 3
            /\ [j \in 1..Len(new) |-> new[j].loan_transaction_type_id] =
                   (IF fee > 0 THEN <<15>> ELSE << >>)
                   \o (IF total_principal + fee > 0 THEN <<14>> ELSE << >>)
                   \o (IF total_interest > 0 THEN <<4>> ELSE << >>)
            /\ \A j \in 1..Len(new) :
                /\ new[j].loan_id = done[k].loan_id
                /\ new[j].loan_transaction_type_id = 15 =>
                        new[j].fees_balance = baseline_fees + fee
                /\ new[j].loan_transaction_type_id = 14 =>
                        /\ new[j].amount = total_principal + fee
                        /\ new[j].principal_balance = 0
                        /\ new[j].fees_balance = 0
                /\ new[j].loan_transaction_type_id = 4 =>
                        /\ new[j].interest_balance = 0
                        /\ new[j].total_balance = 0

\* A loan with a baseline fees_balance of 1 has been settled with a fee and
\* no principal to pay off: a fee and a settlement transaction, no waiver.
C14_Witness ==
    \E k \in Handled("settled") :
        /\ Len(Inserted(k)) = 2
        /\ Inserted(k)[1].loan_transaction_type_id = 15
        /\ Inserted(k)[1].fees_balance = 4
        /\ Inserted(k)[2].loan_transaction_type_id = 14
        /\ Inserted(k)[2].amount = 3

\* C25: handle_early_settlement on a loan that an earlier run has settled
\* (closed, and committed) leaves the loan's row, its installments and its
\* transactions as that run left them.
C25_SecondSettlementChangesNothing ==
    \A k \in 1..Len(done) :
        (\E l \in db0.loans : l.id = done[k].loan_id /\ l.status = "closed")
            => done[k].view = LoanView(db0, done[k].loan_id)

\* The transaction with the highest id of the loan of done[k].
LatestTransaction(k) ==
    CHOOSE t \in done[k].view.transactions :
        \A u \in done[k].view.transactions : u.id <= t.id

\* C28: after handle_early_settlement has settled a loan (it is 'closed'),
\* the latest transaction of the loan has principal_balance, interest_balance,
\* fees_balance and total_balance 0, and its total_balance is the sum of its
\* four balance columns.
C28_LatestTransactionShowsNothingOutstanding ==
    \A k \in Handled("settled") :
        done[k].view.transactions # {} =>
            LET t == LatestTransaction(k)
            IN  /\ t.principal_balance = 0
                /\ t.interest_balance = 0
                /\ t.fees_balance = 0
                /\ t.total_balance = 0
                /\ t.total_balance = t.principal_balance + t.interest_balance
                                       + t.fees_balance + t.penalties_balance

\* The same for loans whose transactions carry no balance before the
\* settlement and whose payoff range has an interest.
C28_NothingOutstandingFromZeroBaseline ==
    \A k \in Handled("settled") :
        (/\ \A t \in Baseline(k) : t.total_balance = 0 /\ t.penalties_balance = 0
                                      /\ t.interest_balance = 0
         /\ \E t \in done[k].view.transactions : t.loan_transaction_type_id = 4) =>
            LET t == LatestTransaction(k)
            IN  /\ t.principal_balance = 0
                /\ t.interest_balance = 0
                /\ t.fees_balance = 0
                /\ t.total_balance = 0
                /\ t.total_balance = t.principal_balance + t.interest_balance
                                       + t.fees_balance + t.penalties_balance

-----------------------------------------------------------------------------
(* Properties of process_columns, transactions *)

\* The row of the transactions migration has been processed.
TransactionsRowProcessed == pc = "processed" /\ migration_name = "transactions"

\* C15: for a row with a cancellation type code (2, 4, 8 or 18) and any signs
\* of the source amounts, the emitted row has amount <= 0,
\* interest_repaid_derived <= 0, penalties_repaid_derived <= 0 and
\* principal_repaid_derived = amount - interest_repaid_derived.
C15_CancellationIsNegative ==
    (TransactionsRowProcessed /\ data_to_migrate[1].trans_act \in {2, 4, 8, 18}) =>
        LET row == log[1].row
        IN  /\ row.amount <= 0
            /\ row.interest_repaid_derived <= 0
            /\ row.penalties_repaid_derived <= 0
            /\ row.principal_repaid_derived = row.amount - row.interest_repaid_derived

\* A cancelled disbursement with a positive amount, a negative interest and
\* a positive penalty: amount -(2 + 1), interest -1, principal -2.
C15_Witness ==
    /\ TransactionsRowProcessed
    /\ data_to_migrate[1].trans_act = 4
    /\ data_to_migrate[1].amount = <<2>>
    /\ data_to_migrate[1].interest_repaid_derived = <<-1>>
    /\ data_to_migrate[1].penalties_repaid_derived = <<1>>
    /\ log[1].row.amount = -3
    /\ log[1].row.interest_repaid_derived = -1
    /\ log[1].row.principal_repaid_derived = -2

\* The side-channel transactions a row asks for: a penalty transaction of
\* type 12 for penalties > 0 (negated for a cancellation code) and a fee
\* transaction of type 2 for the codes 17 and 18 with an amount > 0 (negated
\* for 18), whether or not the row is skipped.
SideChannelAskedFor ==
    LET src == data_to_migrate[1]
        pen == coalesce(src.penalties_repaid_derived)
        amt == coalesce(src.amount)
        side == log[1].side
    IN  /\ pen > 0 =>
            \E j \in 1..Len(side) :
                /\ side[j].loan_transaction_type_id = 12
                /\ side[j].amount = IF src.trans_act \in {2, 4, 8, 18} THEN -pen ELSE pen
        /\ (src.trans_act \in {17, 18} /\ amt > 0) =>
            \E j \in 1..Len(side) :
                /\ side[j].loan_transaction_type_id = 2
                /\ side[j].amount = IF src.trans_act = 18 THEN -amt ELSE amt

\* C16 as stated: every row with penalties > 0 gets its penalty transaction
\* and every row of code 17 or 18 with an amount > 0 its fee transaction.
\* (Violated by a row whose loan was not found.)
C16_SideChannelForEveryRow ==
    TransactionsRowProcessed => SideChannelAskedFor

\* C16: for a row whose loan was found, the INSERT of the penalty transaction
\* (penalties > 0) and of the fee transaction (code 17 or 18, amount > 0) is
\* executed before the skip decision, also when the row is then skipped; for
\* a row without a loan no side-channel transaction is written.
C16_SideChannelForRowsWithLoan ==
    TransactionsRowProcessed =>
        IF data_to_migrate[1].loan_found
        THEN SideChannelAskedFor
        ELSE log[1].side = << >>

\* A row of an unmapped type with a penalty and a loan: the penalty
\* transaction is inserted and the row is skipped.
C16_Witness ==
    /\ TransactionsRowProcessed
    /\ data_to_migrate[1].trans_act = 5
    /\ data_to_migrate[1].loan_found
    /\ log[1].skip
    /\ Len(log[1].side) = 1
    /\ log[1].side[1].loan_transaction_type_id = 12
    /\ log[1].side[1].amount = 2
    /\ log[1].side[1].inserted

\* C23: a primary transactions row that is not skipped gets its target type
\* from the table {1:2, 3:1, 7:6, 17:10, 2:2, 4:1, 8:6, 18:10}; for the
\* target types 1 and 10 debit = amount and credit = 0, for the others
\* debit = 0 and credit = amount; so debit + credit = amount and at most one
\* of the two is not 0.
C23_TypeAndDebitCreditSplit ==
    (TransactionsRowProcessed /\ ~log[1].skip) =>
        LET row == log[1].row
            code == data_to_migrate[1].trans_act
        IN  /\ code \in {1, 2, 3, 4, 7, 8, 17, 18}
            /\ row.loan_transaction_type_id =
                  (CASE code \in {1, 2} -> 2
                     [] code \in {3, 4} -> 1
                     [] code \in {7, 8} -> 6
                     [] code \in {17, 18} -> 10)
            /\ IF row.loan_transaction_type_id \in {1, 10}
               THEN row.debit = row.amount /\ row.credit = 0
               ELSE row.debit = 0 /\ row.credit = row.amount
            /\ row.debit + row.credit = row.amount
            /\ row.debit = 0 \/ row.credit = 0

\* A cancelled apply-charges row of amount 2 with a penalty of 1: type 10,
\* the whole negative amount in the debit column.
C23_Witness ==
    /\ TransactionsRowProcessed
    /\ ~log[1].skip
    /\ data_to_migrate[1].trans_act = 18
    /\ data_to_migrate[1].amount = <<2>>
    /\ data_to_migrate[1].penalties_repaid_derived = <<1>>
    /\ log[1].row.loan_transaction_type_id = 10
    /\ log[1].row.debit = -3
    /\ log[1].row.credit = 0

\* The row process_columns emits for the source values of the processed row
\* under the type code: the row as a transaction of loan 1.
EmittedAs(code) ==
    LET r == transactions_branch([data_to_migrate[1] EXCEPT !.trans_act = code],
                                 [penalty |-> FALSE, fee |-> FALSE]).row
    IN  Tx(code, 1, r.loan_transaction_type_id, r.principal_repaid_derived,
           r.interest_repaid_derived, r.penalties_repaid_derived, r.amount, 0)

\* C26: the row emitted for the cancellation code 2 has amount, interest,
\* penalties and principal equal to the negation of the row emitted for code
\* 1 with the same source values, so that the replay of settle_transactions
\* over the repayment and then its cancellation ends on the balances it
\* started from.
C26_CancellationNegatesRepayment ==
    (TransactionsRowProcessed /\ data_to_migrate[1].trans_act = 2) =>
        LET repayment == EmittedAs(1)
            row == log[1].row
        IN  /\ row.amount = -repayment.amount
            /\ row.interest_repaid_derived = -repayment.interest_repaid_derived
            /\ row.penalties_repaid_derived = -repayment.penalties_repaid_derived
            /\ row.principal_repaid_derived = -repayment.principal_repaid_derived
            /\ update_balances(update_balances(ZeroBalances, repayment), EmittedAs(2))
                  = ZeroBalances

\* The same for the rows without a penalty.
C26_NegatesRepaymentWithoutPenalty ==
    (TransactionsRowProcessed /\ data_to_migrate[1].trans_act = 2
        /\ coalesce(data_to_migrate[1].penalties_repaid_derived) = 0) =>
        LET repayment == EmittedAs(1)
            row == log[1].row
        IN  /\ row.amount = -repayment.amount
            /\ row.interest_repaid_derived = -repayment.interest_repaid_derived
            /\ row.penalties_repaid_derived = -repayment.penalties_repaid_derived
            /\ row.principal_repaid_derived = -repayment.principal_repaid_derived
            /\ update_balances(update_balances(ZeroBalances, repayment), EmittedAs(2))
                  = ZeroBalances

-----------------------------------------------------------------------------
(* Properties of process_columns, loans *)

\* The row of the loans migration has been processed.
LoansRowProcessed == pc = "processed" /\ migration_name = "loans"

\* C18: the status of a loans row is 'written_off' when loan_cond = 2 and
\* fully_paid_date is present, whatever loan_status is; otherwise it is
\* submitted, active, closed, withdrawn for loan_status 0, 1, 5, 6 and
\* 'pending' for any other value; principal_disbursed_derived is the
\* approved_amount.
C18_LoanStatusDerivation ==
    LoansRowProcessed =>
        LET src == data_to_migrate[1]
            row == log[1]
        IN  /\ row.status =
                IF src.loan_cond = <<2>> /\ src.fully_paid_date # NULL
                THEN "written_off"
                ELSE CASE src.loan_status = <<0>> -> "submitted"
                       [] src.loan_status = <<1>> -> "active"
                       [] src.loan_status = <<5>> -> "closed"
                       [] src.loan_status = <<6>> -> "withdrawn"
                       [] OTHER -> "pending"
            /\ row.status \in {"written_off", "submitted", "active", "closed",
                               "withdrawn", "pending"}
            /\ row.principal_disbursed_derived = src.approved_amount

\* A written-off loan whose loan_status says active.
C18_Witness ==
    /\ LoansRowProcessed
    /\ data_to_migrate[1].loan_cond = <<2>>
    /\ data_to_migrate[1].fully_paid_date # NULL
    /\ data_to_migrate[1].loan_status = <<1>>
    /\ data_to_migrate[1].approved_amount = <<MaxAmount>>
    /\ log[1].status = "written_off"
    /\ log[1].principal_disbursed_derived = <<MaxAmount>>

\* C20: first_payment_date is the disbursement date one calendar month later:
\* the next month, January of the next year after December, with the same day
\* when the month has it and the last day of the month otherwise; with no
\* disbursed_on_date, first_payment_date is not set.
C20_FirstPaymentDate ==
    LoansRowProcessed =>
        LET src == data_to_migrate[1]
            row == log[1]
        IN  IF src.disbursed_on_date = NULL
            THEN row.first_payment_date = NULL
            ELSE LET dt == src.disbursed_on_date[1]
                     y == IF dt.month = 12 THEN dt.year + 1 ELSE dt.year
                     m == IF dt.month = 12 THEN 1 ELSE dt.month + 1
                     last == DaysIn(y, m)
                 IN  row.first_payment_date =
                        <<[year |-> y, month |-> m,
                           day |-> IF dt.day <= last THEN dt.day ELSE last]>>

\* 2024-01-31 gives 2024-02-29.
C20_Witness ==
    /\ LoansRowProcessed
    /\ data_to_migrate[1].disbursed_on_date = <<[year |-> 2024, month |-> 1, day |-> 31]>>
    /\ log[1].first_payment_date = <<[year |-> 2024, month |-> 2, day |-> 29]>>

-----------------------------------------------------------------------------
(* Properties of process_columns, installments *)

\* The row of the installments migration has been processed.
InstallmentsRowProcessed == pc = "processed" /\ migration_name = "installments"

\* The size of an amount of the source row: the branch first makes the
\* amounts non-negative.
Size(v) == IF v < 0 THEN 0 - v ELSE v

\* C19: the status of an installments row is 'written_off' if the loan is
\* written_off and inst_cond = 2; else 'rescheduled' if inst_status = 8; else
\* 'closed' if principal_repaid_derived >= principal and otherwise 'active'
\* with paid_by_date cleared; with no inst_cond in the source row only the
\* last rule applies.  Whatever the status, the emitted principal is the
\* principal minus the interest and the emitted principal_repaid_derived is
\* its value minus interest_repaid_derived (of the non-negative amounts).
C19_InstallmentStatusDerivation ==
    InstallmentsRowProcessed =>
        LET src == data_to_migrate[1]
            row == log[1]
            by_payment ==
                IF Size(src.principal_repaid_derived) >= Size(src.principal)
                THEN "closed" ELSE "active"
        IN  /\ row.status =
                IF ~src.has_inst_cond THEN by_payment
                ELSE IF src.loan_status = <<"written_off">> /\ src.inst_cond = <<2>>
                THEN "written_off"
                ELSE IF src.inst_status = <<8>> THEN "rescheduled"
                ELSE by_payment
            /\ row.status = "active" => row.paid_by_date = NULL
            /\ row.status # "active" => row.paid_by_date = src.paid_by_date
            /\ row.principal = Size(src.principal) - Size(src.interest)
            /\ row.principal_repaid_derived =
                   Size(src.principal_repaid_derived) - Size(src.interest_repaid_derived)

\* An installment of a written-off loan with inst_cond = 2 and inst_status
\* = 8, not fully repaid: written_off, the date kept, the interest taken out
\* of the principal.
C19_Witness ==
    /\ InstallmentsRowProcessed
    /\ data_to_migrate[1].loan_status = <<"written_off">>
    /\ data_to_migrate[1].has_inst_cond
    /\ data_to_migrate[1].inst_cond = <<2>>
    /\ data_to_migrate[1].inst_status = <<8>>
    /\ data_to_migrate[1].principal = 2
    /\ data_to_migrate[1].interest = 1
    /\ data_to_migrate[1].principal_repaid_derived = 0
    /\ data_to_migrate[1].paid_by_date # NULL
    /\ log[1].status = "written_off"
    /\ log[1].paid_by_date # NULL
    /\ log[1].principal = 1


-----------------------------------------------------------------------------
(* The loans migration against the target tables: process_columns' lookups, *)
(* the placeholder application and is_renewed                               *)

\* The target tables the loans lookups read and write.  A row of clients,
\* loan_products or loan_applications has an id and the external_id the
\* lookups search for; a key or an id of 0 stands for None (not set).
ClientRow(id, external_id) == [id |-> id, external_id |-> external_id]

ApplicationRow(id, external_id, status, client_id, loan_product_id) ==
    [id |-> id, external_id |-> external_id, status |-> status,
     client_id |-> client_id, loan_product_id |-> loan_product_id]

LoansTableRow(id, client_id, loan_product_id, application_id, is_renewed) ==
    [id |-> id, client_id |-> client_id, loan_product_id |-> loan_product_id,
     application_id |-> application_id, is_renewed |-> is_renewed]

\* The target before a loans run: the client with key 1 was migrated, the
\* client with key 2 perhaps; the product with code 1 was migrated; of the
\* applications only the one with key 1, perhaps; and the first client may
\* have a loan from an earlier run.
LoanRunTables ==
    {[clients |-> {ClientRow(11, 1)} \cup c,
      loan_products |-> {ClientRow(21, 1)},
      loan_applications |-> a,
      loans |-> l] :
        c \in {{}, {ClientRow(12, 2)}},
        a \in {{}, {ApplicationRow(31, 1, "pending", 11, 21)}},
        l \in {{}, {LoansTableRow(41, 11, 21, 0, NULL)}}}

\* The source columns of a loans row that the lookups read; 0 is an empty
\* (None) key.  The client with key 2 is the one the target may not have.
LoanRunSources == [client_key : {1, 2}, loan_type_code : {0, 1}, application_key : {0, 1, 2}]

\* What the database driver does to the statements of one loans row.
LoanRunFaults ==
    [application_lookup : BOOLEAN, placeholder_insert : BOOLEAN,
     count_lookup : BOOLEAN, insert : BOOLEAN]

\* cursor.lastrowid of an insert into table rows (no row is deleted here).
lastrowid(rows, first) ==
    IF rows = {} THEN first
    ELSE 1 + (CHOOSE m \in {r.id : r \in rows} : \A r \in rows : r.id <= m)

\* get_record_value(table, "external_id = '<key>'", "id"): the id of a row
\* with that external_id ("LIMIT 1": the first one), None when there is no
\* such row and also when the SELECT raises.
get_record_value(rows, key, raises) ==
    LET found == {r \in rows : r.external_id = key}
    IN  IF raises \/ found = {} THEN 0
        ELSE CHOOSE m \in {r.id : r \in found} : \A r \in found : m <= r.id

\* create_placeholder_application: the tables and the id it returns (None
\* when the insert raises).
create_placeholder_application(tables, client_id, loan_product_id, key, raises) ==
    IF raises THEN [tables |-> tables, application_id |-> 0]
    ELSE LET id == lastrowid(tables.loan_applications, 31)
         IN  [tables |-> [tables EXCEPT !.loan_applications =
                              @ \cup {ApplicationRow(id, key, "approved", client_id, loan_product_id)}],
              application_id |-> id]

existing_loans_count_of_anyone(tables, client_id) == Cardinality(tables.loans)

\* get_record_value("loans", "client_id = <id>", "COUNT(*)")
existing_loans_count(tables, client_id) ==
    Cardinality({l \in tables.loans : l.client_id = client_id})

\* process_columns for a loans row: the lookups of the common part and
\* is_renewed.  raised: "existing_loans_count > 0" with the None of a failed
\* COUNT raises TypeError.
loans_lookups(tables, src, f) ==
    LET client_id == IF src.client_key # 0
                     THEN get_record_value(tables.clients, src.client_key, FALSE) ELSE 0
        loan_product_id == IF src.loan_type_code # 0
                           THEN get_record_value(tables.loan_products, src.loan_type_code, FALSE)
                           ELSE 0
        found == IF src.application_key # 0
                 THEN get_record_value(tables.loan_applications, src.application_key,
                                       f.application_lookup)
                 ELSE 0
        create == src.application_key # 0 /\ found = 0 /\ client_id # 0 /\ loan_product_id # 0
        placeholder == IF create
                       THEN create_placeholder_application(tables, client_id, loan_product_id,
                                                           src.application_key, f.placeholder_insert)
                       ELSE [tables |-> tables, application_id |-> 0]
        application_id == IF found # 0 THEN found ELSE placeholder.application_id
        raised == client_id # 0 /\ f.count_lookup
    IN  [tables |-> placeholder.tables,
         raised |-> raised,
         asked_placeholder |-> create,
         row |-> LoansTableRow(0, client_id, loan_product_id, application_id,
                         IF client_id # 0 /\ ~raised
                         THEN <<existing_loans_count(placeholder.tables, client_id) > 0>>
                         ELSE NULL)]

\* One iteration of the row loop for a loans row: process_columns, then the
\* main insert.  The entry of the log keeps the tables as they were when
\* the row was transformed.
loans_row(tables, src, f) ==
    LET t == loans_lookups(tables, src, f)
        entry == [src |-> src, before |-> tables, row |-> t.row,
                  asked_placeholder |-> t.asked_placeholder,
                  returned |-> ~t.raised, main |-> "none"]
    IN  IF t.raised THEN [tables |-> t.tables, entry |-> entry]
        ELSE IF f.insert THEN [tables |-> t.tables, entry |-> [entry EXCEPT !.main = "err"]]
        ELSE LET id == lastrowid(t.tables.loans, 41)
             IN  [tables |-> [t.tables EXCEPT !.loans = @ \cup {[t.row EXCEPT !.id = id]}],
                  entry |-> [entry EXCEPT !.main = "ok", !.row.id = id]]

\* A loans run that has fetched its rows and started its transaction.
InitLoansRun ==
    /\ pc = "loop"
    /\ migration_name = "loans"
    /\ fk_option = "1"
    /\ fk_checks = 1
    /\ data_to_migrate \in SeqsUpTo(LoanRunSources, MaxRows)
    /\ i = 0
    /\ successful_inserts = 0
    /\ failed_inserts = 0
    /\ skipped_transactions = 0
    /\ commits = 0
    /\ rollbacks = 0
    /\ outcome = "running"
    /\ log = << >>
    /\ runs = 1
    /\ db \in LoanRunTables
    /\ dbc = db
    /\ db0 = db
    /\ loan_ids = << >>
    /\ next_tx_id = 1
    /\ done = << >>
    /\ prev_outcome = "none"

\* One iteration of the row loop; log keeps the entry of the last row.
ProcessLoansRunRow ==
    /\ pc = "loop"
    /\ i < Len(data_to_migrate)
    /\ \E f \in LoanRunFaults :
         LET r == loans_row(db, data_to_migrate[i + 1], f)
         IN  /\ db' = r.tables
             /\ log' = <<r.entry>>
             /\ successful_inserts' = successful_inserts + (IF r.entry.main = "ok" THEN 1 ELSE 0)
             /\ failed_inserts' = failed_inserts + (IF r.entry.main = "ok" THEN 0 ELSE 1)
    /\ i' = i + 1
    /\ UNCHANGED <<pc, migration_name, fk_option, fk_checks, data_to_migrate,
                   skipped_transactions, commits, rollbacks, outcome, runs>>
    /\ UNCHANGED <<dbc, loan_ids, next_tx_id, done, db0, prev_outcome>>

\* After the loop: commit when a row was inserted, rollback otherwise.
FinishRun ==
    /\ pc = "loop"
    /\ i = Len(data_to_migrate)
    /\ IF commit_condition
       THEN /\ commits' = commits + 1 /\ rollbacks' = rollbacks
            /\ dbc' = db /\ db' = db
            /\ outcome' = "committed"
       ELSE /\ rollbacks' = rollbacks + 1 /\ commits' = commits
            /\ db' = dbc /\ dbc' = dbc
            /\ outcome' = "rolledback"
    /\ pc' = "menu"
    /\ UNCHANGED <<migration_name, fk_option, fk_checks, data_to_migrate, i,
                   successful_inserts, failed_inserts, skipped_transactions, log, runs>>
    /\ UNCHANGED <<loan_ids, next_tx_id, done, db0, prev_outcome>>

NextLoansRun == ProcessLoansRunRow \/ FinishRun

SpecLoansRun == InitLoansRun /\ [][NextLoansRun]_vars

-----------------------------------------------------------------------------
(* The clients migration against the target tables: the user and the wallet *)
(* process_columns creates for a client                                     *)

\* The target before a clients run: no client yet, and the users (with their
\* wallets) of the officers migration, if it was run.
ClientRunTables ==
    {[users |-> u, wallets |-> {[id |-> r.id, user_id |-> r.id, role_id |-> 60] : r \in u},
      clients |-> {}, profiles |-> {}] :
        u \in {{}, {[id |-> 1, role_id |-> 60]}}}

\* The source columns of a clients row: its key.
ClientRunSources == [client_key : {1, 2}]

\* What the database driver does to the INSERTs of one clients row.
ClientRunFaults == [user : BOOLEAN, wallet : BOOLEAN, insert : BOOLEAN, profile : BOOLEAN]

\* process_columns for a clients row: the user (role 3) and its wallet are
\* inserted through the cursor of the run's transaction.  raised: one of the
\* two INSERTs raised.
clients_branch(tables, f) ==
    LET user_id == lastrowid(tables.users, 1)
        t1 == [tables EXCEPT !.users = @ \cup {[id |-> user_id, role_id |-> 3]}]
        t2 == [t1 EXCEPT !.wallets =
                 @ \cup {[id |-> lastrowid(t1.wallets, 1), user_id |-> user_id, role_id |-> 3]}]
    IN  IF f.user THEN [tables |-> tables, user_id |-> 0, wallet |-> FALSE, raised |-> TRUE]
        ELSE IF f.wallet THEN [tables |-> t1, user_id |-> user_id, wallet |-> FALSE, raised |-> TRUE]
        ELSE [tables |-> t2, user_id |-> user_id, wallet |-> TRUE, raised |-> FALSE]

\* One iteration of the row loop for a clients row: process_columns, the
\* main insert, then the two profiles of the client.  An exception ends the
\* row in the loop's except clause (caught); nothing that was inserted for
\* the row is taken back there.
clients_row(tables, src, f) ==
    LET t == clients_branch(tables, f)
        entry == [src |-> src, user_id |-> t.user_id, wallet |-> t.wallet,
                  main |-> "none", profiles |-> "none", caught |-> TRUE]
        client_id == lastrowid(t.tables.clients, 1)
        t3 == [t.tables EXCEPT !.clients =
                 @ \cup {[id |-> client_id, external_id |-> src.client_key,
                          user_id |-> t.user_id]}]
        t4 == [t3 EXCEPT !.profiles =
                 @ \cup {[profileable_id |-> client_id, document_type_id |-> dt] : dt \in {1, 2}}]
    IN  IF t.raised THEN [tables |-> t.tables, entry |-> entry]
        ELSE IF f.insert THEN [tables |-> t.tables, entry |-> [entry EXCEPT !.main = "err"]]
        ELSE IF f.profile
        THEN [tables |-> t3, entry |-> [entry EXCEPT !.main = "ok", !.profiles = "err"]]
        ELSE [tables |-> t4,
              entry |-> [entry EXCEPT !.main = "ok", !.profiles = "ok", !.caught = FALSE]]

\* A clients run that has fetched its rows and started its transaction.
InitClientsRun ==
    /\ pc = "loop"
    /\ migration_name = "clients"
    /\ fk_option = "1"
    /\ fk_checks = 1
    /\ data_to_migrate \in SeqsUpTo(ClientRunSources, MaxRows)
    /\ i = 0
    /\ successful_inserts = 0
    /\ failed_inserts = 0
    /\ skipped_transactions = 0
    /\ commits = 0
    /\ rollbacks = 0
    /\ outcome = "running"
    /\ log = << >>
    /\ runs = 1
    /\ db \in ClientRunTables
    /\ dbc = db
    /\ db0 = db
    /\ loan_ids = << >>
    /\ next_tx_id = 1
    /\ done = << >>
    /\ prev_outcome = "none"

\* One iteration of the row loop; log keeps the entry of every row.
ProcessClientsRunRow ==
    /\ pc = "loop"
    /\ i < Len(data_to_migrate)
    /\ \E f \in ClientRunFaults :
         LET r == clients_row(db, data_to_migrate[i + 1], f)
         IN  /\ db' = r.tables
             /\ log' = Append(log, r.entry)
             /\ successful_inserts' = successful_inserts + (IF r.entry.main = "ok" THEN 1 ELSE 0)
             /\ failed_inserts' = failed_inserts + (IF r.entry.caught THEN 1 ELSE 0)
    /\ i' = i + 1
    /\ UNCHANGED <<pc, migration_name, fk_option, fk_checks, data_to_migrate,
                   skipped_transactions, commits, rollbacks, outcome, runs>>
    /\ UNCHANGED <<dbc, loan_ids, next_tx_id, done, db0, prev_outcome>>

NextClientsRun == ProcessClientsRunRow \/ FinishRun

SpecClientsRun == InitClientsRun /\ [][NextClientsRun]_vars

-----------------------------------------------------------------------------
(* Properties of the clients migration against the target tables *)

\* C29: in a clients run that commits, a row that failed (its main insert,
\* or a step after its user and wallet were created, raised) has no users
\* row and no wallets row in the committed target.
C29_FailedRowLeavesNothing ==
    (migration_name = "clients" /\ outcome = "committed") =>
        \A k \in 1..Len(log) :
            (log[k].caught /\ log[k].user_id # 0) =>
                /\ \A u \in dbc.users : u.id # log[k].user_id
                /\ \A w \in dbc.wallets : w.user_id # log[k].user_id

-----------------------------------------------------------------------------
(* Properties of the loans migration against the target tables *)

LoansRunRowDone == migration_name = "loans" /\ pc = "loop" /\ Len(log) = 1

\* The loans this run has inserted so far.
InsertedLoans == db.loans \ db0.loans

\* C21: a loans row with a resolved client gets is_renewed = true exactly
\* when a loan of that client was in the target when the row was
\* transformed; so of the loans a run inserts for a client, one has
\* is_renewed = true exactly when the target holds an older loan of that
\* client.
C21_IsRenewedIffClientHasLoan ==
    /\ LoansRunRowDone /\ log[1].returned /\ log[1].row.client_id # 0
         => log[1].row.is_renewed =
               <<\E l \in log[1].before.loans : l.client_id = log[1].row.client_id>>
    /\ pc = "loop" =>
         \A l \in InsertedLoans :
            l.client_id # 0 =>
               l.is_renewed = <<\E o \in db.loans : o.client_id = l.client_id /\ o.id < l.id>>

\* A run has inserted a first loan (not renewed) and a later loan (renewed)
\* for the client that had no loan, beside a loan of the other client.
C21_Witness ==
    /\ LoansRunRowDone
    /\ \E a, b \in InsertedLoans :
         /\ a.client_id = 12 /\ b.client_id = 12 /\ a.id < b.id
         /\ a.is_renewed = <<FALSE>> /\ b.is_renewed = <<TRUE>>
    /\ \E o \in db.loans : o.client_id = 11

\* The applications in the target with the key of the last row, when the row
\* was transformed.
ApplicationsWithKey == {a \in log[1].before.loan_applications :
                            a.external_id = log[1].src.application_key}

\* The applications the last row has inserted.
NewApplications == db.loan_applications \ log[1].before.loan_applications

\* C22: a loans row with an application_key takes the id of the target
\* application with that external_id when there is one; when there is none
\* and client and product were resolved, an 'approved' placeholder with that
\* external_id is inserted and the row takes its id; when there is none and
\* client or product is unresolved, nothing is inserted and application_id
\* stays unset; and a run creates at most one placeholder for a key.
C22_PlaceholderOnlyWhenMissing ==
    /\ LoansRunRowDone /\ log[1].src.application_key # 0 =>
         /\ ApplicationsWithKey # {} =>
              /\ log[1].row.application_id \in {a.id : a \in ApplicationsWithKey}
              /\ NewApplications = {}
         /\ ApplicationsWithKey = {} /\ log[1].row.client_id # 0
                                     /\ log[1].row.loan_product_id # 0 =>
              /\ NewApplications =
                    {ApplicationRow(log[1].row.application_id, log[1].src.application_key,
                                    "approved", log[1].row.client_id,
                                    log[1].row.loan_product_id)}
              /\ log[1].row.application_id # 0
         /\ ApplicationsWithKey = {} /\ (log[1].row.client_id = 0
                                         \/ log[1].row.loan_product_id = 0) =>
              /\ NewApplications = {}
              /\ log[1].row.application_id = 0
    /\ pc = "loop" =>
         \A key \in {1, 2} :
            Cardinality({a \in db.loan_applications \ db0.loan_applications :
                            a.external_id = key}) <= 1

-----------------------------------------------------------------------------
(* Properties of process_columns, installments: the signs *)

\* C30: every installments row process_columns emits has principal,
\* principal_repaid_derived, interest, interest_repaid_derived and fees >= 0,
\* whatever the signs of the source values and the relation between
\* principal and interest.
C30_EmittedAmountsNonNegative ==
    InstallmentsRowProcessed =>
        /\ log[1].principal >= 0
        /\ log[1].principal_repaid_derived >= 0
        /\ log[1].interest >= 0
        /\ log[1].interest_repaid_derived >= 0
        /\ log[1].fees >= 0

\* The same for the three amounts that are only normalised.
C30_NormalisedAmountsNonNegative ==
    InstallmentsRowProcessed =>
        /\ log[1].interest >= 0
        /\ log[1].interest_repaid_derived >= 0
        /\ log[1].fees >= 0

=============================================================================
